---- MODULE Spec2Model ----
(***************************************************************************)
(* Stock ledger, per-user picklists, card cache and import plans of the    *)
(* warehouse bot.  Quantities are whole units (the code uses floats; NaN   *)
(* is kept as a separate value because the validation depends on it).      *)
(* The store is PostgreSQL under READ COMMITTED: a transaction stages its  *)
(* writes, row locks are held until commit or rollback, reads see the      *)
(* committed rows.  Every bot instance is a process with its own L1 cache; *)
(* a handler's database section has no await, so one process runs one     *)
(* handler at a time.                                                      *)
(***************************************************************************)
EXTENDS Integers, Sequences, FiniteSets, TLC

\* ------------------------------------------------------------------ bounds
MaxQty == 2      \* largest quantity a ledger row starts with or an import row carries
MaxReq == 3      \* largest quantity a user asks for
MaxOps == 2      \* handlers started in one behaviour
MaxBatch == 2    \* lines of one subtract message

\* ---------------------------------------------------------------- universe
Procs == {"p1", "p2"}
Users == {"u1", "u2"}
Depts == {"100"}
Articles == {"11111111", "22222222"}
Keys == Depts \X Articles
\* Articles that earlier imports left in the ledger and that no request names.
OldArticles == {"33333333", "44444444"}
LedgerKeys == Depts \X (Articles \cup OldArticles)
NoProc == "none"

\* -------------------------------------------------------- finite functions
EmptyFn == [x \in {} |-> 0]
Upd(f, k, v) == [x \in DOMAIN f \cup {k} |-> IF x = k THEN v ELSE f[x]]
Del(f, S) == [x \in DOMAIN f \ S |-> f[x]]
Merge(f, g) == [x \in DOMAIN f \cup DOMAIN g |-> IF x \in DOMAIN g THEN g[x] ELSE f[x]]
GetOr(f, k, d) == IF k \in DOMAIN f THEN f[k] ELSE d
Min(a, b) == IF a <= b THEN a ELSE b
Max(a, b) == IF a >= b THEN a ELSE b

\* ------------------------------------------------------------------ floats
\* A float is a whole number or NaN.
Num(n) == [nan |-> FALSE, v |-> n]
NaN == [nan |-> TRUE, v |-> 0]
\* n <= 0 on floats: every comparison with NaN is false.
FloatLeZero(x) == ~x.nan /\ x.v <= 0
FloatGtZero(x) == ~x.nan /\ x.v > 0
\* max(0.0, x) of Python: x when x > 0.0, else the first argument 0.0.
PyMaxZero(x) == IF FloatGtZero(x) THEN x.v ELSE 0

\* The text of a quantity: a decimal number, the word "nan", or other text.
NumText(n) == [kind |-> "num", val |-> n]
NanText == [kind |-> "nan", val |-> 0]
BadText == [kind |-> "bad", val |-> 0]
QtyTexts == {NumText(n) : n \in {-1, 0, 1, MaxReq}} \cup {NanText, BadText}
\* float(text): raises ValueError on other text, accepts "nan".
FloatParses(t) == t.kind \in {"num", "nan"}
FloatOf(t) == IF t.kind = "nan" THEN NaN ELSE Num(t.val)
\* _QTY_RE: optional sign, digits, optional fraction.
QtyReMatches(t) == t.kind = "num"

VARIABLES
    products,                 \* committed ledger rows: key -> [qty, active]
    picklist_items,           \* committed: <<user, key>> -> qty_alloc
    picklist_overflow_items,  \* committed: <<user, key>> -> qty_overflow
    product_card_cache,       \* committed L2 rows: key -> card
    L1,                       \* per process: key -> card
    row_lock,                 \* products row lock: key -> holder or NoProc
    pc,                       \* per process: position in its handler
    tx,                       \* per process: the handler's locals and staged writes
    result,                   \* per process: what the last handler returned
    pre,                      \* per process: the store and cache when the handler started
    contended,                \* per process: the lock statement found the row locked
    baseline,                 \* per key: the quantity at the start or set by the last import
    debited,                  \* per key: debits reported by committed handlers since then
    granted,                  \* per key: the allocations returned by committed allocate calls
    last_debit,               \* per key: [pre, post] of an allocation, while it is the last write
    plan_files,               \* PLANS_DIR: token -> plan
    nops,                     \* handlers started so far
    _L1,                      \* the _LRUCache of one process: [_data, _use]
    ProductCardCache,         \* the L2 rows its session sees: key -> [card_json, file_id]
    time,                     \* time.time()
    call,                     \* the last call of the cache API and what it returned
    CARD_L2_ENABLED,          \* the process was started with the L2 tier on
    ADMIN_IDS,                \* the user ids of the ADMIN_IDS setting
    from_user                 \* the user whose import messages and buttons arrive

store == <<products, picklist_items, picklist_overflow_items, product_card_cache>>
ghost == <<baseline, debited, granted, last_debit>>
cache_vars == <<_L1, ProductCardCache, time, call, CARD_L2_ENABLED, ADMIN_IDS, from_user>>
vars == <<products, picklist_items, picklist_overflow_items, product_card_cache, L1,
          row_lock, pc, tx, result, pre, contended, baseline, debited, granted, last_debit, plan_files, nops, cache_vars>>

\* ------------------------------------------------------------------- cards
\* render_product_card: the payload of a ledger row, or the "not found" payload.
render_product_card(k) ==
    IF k \notin DOMAIN products
    THEN [dept_id |-> k[1], article |-> k[2], found |-> FALSE, available |-> 0,
          can_add |-> FALSE]
    ELSE [dept_id |-> k[1], article |-> k[2], found |-> TRUE,
          available |-> products[k].qty, can_add |-> products[k].qty > 0]

\* ------------------------------------------------------------ transactions
IdleTx == [items |-> <<>>,
           user |-> "u1", key |-> <<"100", "11111111">>, req |-> Num(0),
           available |-> 0, alloc |-> 0, overflow |-> 0,
           w_qty |-> EmptyFn, w_pick |-> EmptyFn, w_over |-> EmptyFn,
           new_pick |-> {}, new_over |-> {},
           plan |-> <<>>, existing |-> EmptyFn, objs |-> EmptyFn, ins |-> <<>>,
           del_cache |-> {}, agg |-> <<>>, idx |-> 0, results |-> <<>>, errors |-> <<>>]

Snapshot(p) == [products |-> products, picklist_items |-> picklist_items,
                picklist_overflow_items |-> picklist_overflow_items,
                product_card_cache |-> product_card_cache, L1 |-> L1[p]]

AllIdle == \A q \in Procs : pc[q] = "idle"

\* Releasing every row lock a transaction holds (commit or rollback).
Released(p) == [k \in LedgerKeys |-> IF row_lock[k] = p THEN NoProc ELSE row_lock[k]]

\* SELECT id FROM products WHERE ... FOR UPDATE SKIP LOCKED: locks the committed
\* row when it is free, returns nothing (and locks nothing) when another
\* transaction holds it or when there is no row.  The result is not looked at.
SkipLockedSelect(p, k) ==
    /\ row_lock' = IF k \in DOMAIN products /\ row_lock[k] = NoProc
                   THEN [row_lock EXCEPT ![k] = p] ELSE row_lock
    /\ contended' = [contended EXCEPT ![p] =
                        k \in DOMAIN products /\ row_lock[k] \notin {NoProc, p}]

\* What an idle process remembers of the store: nothing.
IdlePre == [products |-> EmptyFn, picklist_items |-> EmptyFn,
            picklist_overflow_items |-> EmptyFn, product_card_cache |-> EmptyFn,
            L1 |-> EmptyFn]

\* A request arrives at an idle process.
Begin(p) ==
    /\ nops < MaxOps
    /\ pc[p] = "idle"
    /\ nops' = nops + 1

\* The handler answers at once: it has no locals left and stays idle.
Answer(p, r) ==
    /\ result' = [result EXCEPT ![p] = r]
    /\ UNCHANGED <<pc, tx, pre>>

\* The handler opens its session with the locals t and goes to the step at.
Enter(p, at, t) ==
    /\ pc' = [pc EXCEPT ![p] = at]
    /\ tx' = [tx EXCEPT ![p] = t]
    /\ pre' = [pre EXCEPT ![p] = Snapshot(p)]
    /\ result' = [result EXCEPT ![p] = [kind |-> "running"]]

\* The handler returns r: its locals are gone.
Return(p, r) ==
    /\ pc' = [pc EXCEPT ![p] = "idle"]
    /\ tx' = [tx EXCEPT ![p] = IdleTx]
    /\ pre' = [pre EXCEPT ![p] = IdlePre]
    /\ result' = [result EXCEPT ![p] = r]

\* The products table without its CHECK constraint.
C1_NoCheckConstraint(w) == TRUE

\* CHECK (qty >= 0) of products, tested by the store when the row is written.
ck_products_qty_nonneg(w) == \A k \in DOMAIN w : w[k] >= 0

\* The flush that also switches off a row whose staged quantity is 0.
C39_DeactivateAtZero(w) ==
    [k \in DOMAIN products |->
        IF k \in DOMAIN w THEN [products[k] EXCEPT !.qty = w[k], !.active = w[k] # 0]
        ELSE products[k]]

\* The UPDATE of a staged quantity without the article in its WHERE clause.
C36_UpdateWholeDept(w) ==
    [k \in DOMAIN products |->
        IF \E x \in DOMAIN w : x[1] = k[1]
        THEN [products[k] EXCEPT !.qty = w[CHOOSE x \in DOMAIN w : x[1] = k[1]]]
        ELSE products[k]]

\* The committed ledger with the staged quantities written.
WriteQty(w) ==
    [k \in DOMAIN products |->
        IF k \in DOMAIN w THEN [products[k] EXCEPT !.qty = w[k]] ELSE products[k]]

\* A staged INSERT of a picklist row meets a row committed meanwhile
\* (uq_pick_alloc_user_dept_article, uq_pick_over_user_dept_article).
PicklistConflict(p) ==
    \/ \E r \in tx[p].new_pick : r \in DOMAIN picklist_items
    \/ \E r \in tx[p].new_over : r \in DOMAIN picklist_overflow_items

\* --------------------------------------------------------------- allocation
\* The handler of an "add" request: it answers "wrong quantity" without
\* opening a session, or enters _apply_add (with get_session() as s).
add_request(p, u, k, t, rejects) ==
    /\ Begin(p)
    /\ IF rejects
       THEN Answer(p, [kind |-> "rejected"])
       ELSE Enter(p, "add_lock", [IdleTx EXCEPT !.user = u, !.key = k, !.req = FloatOf(t)])
    /\ UNCHANGED <<store, L1, row_lock, contended, ghost, cache_vars, plan_files>>

\* add_fixed: callback add:<dept_id>:<article>:<n>.
AddFixedRejects(t) == ~FloatParses(t) \/ FloatLeZero(FloatOf(t))

add_fixed(p, u, k, t) == add_request(p, u, k, t, AddFixedRejects(t))

\* add_custom_receive: the quantity typed by the user, dept and article from the FSM.
AddCustomRejects(t) == ~QtyReMatches(t) \/ ~FloatParses(t) \/ FloatLeZero(FloatOf(t))

add_custom_receive(p, u, k, t) ==
    add_request(p, u, k, t, AddCustomRejects(t))

\* _apply_add, the lock statement.
AddLock(p) ==
    /\ pc[p] = "add_lock"
    /\ SkipLockedSelect(p, tx[p].key)
    /\ pc' = [pc EXCEPT ![p] = "add_read"]
    /\ UNCHANGED <<store, L1, tx, result, pre, ghost, cache_vars, plan_files, nops>>

\* The part of the request above the stock is dropped.
C3_OverflowDropped(req, alloc) == 0

Allocated(available, req) == Min(available, req)
Overflowed(req, alloc) == Max(req - alloc, 0)

\* _apply_add, the read of the product: an absent row commits and returns
\* (0.0, req_qty); a present row gives alloc, overflow and the new quantity.
AddRead(p) ==
    LET k == tx[p].key
        available == products[k].qty
        req == PyMaxZero(tx[p].req)
        alloc == Allocated(available, req)
        overflow == Overflowed(req, alloc)
        newqty == available - alloc
    IN
    /\ pc[p] = "add_read"
    /\ IF k \notin DOMAIN products
       THEN /\ Return(p, [kind |-> "added", alloc |-> 0, overflow |-> tx[p].req])
            /\ row_lock' = Released(p)
       ELSE /\ pc' = [pc EXCEPT ![p] = "add_write"]
            /\ tx' = [tx EXCEPT ![p].available = available, ![p].alloc = alloc,
                                ![p].overflow = overflow,
                                ![p].w_qty = IF newqty # available
                                             THEN Upd(EmptyFn, k, newqty) ELSE EmptyFn]
            /\ UNCHANGED <<result, row_lock, pre>>
    /\ UNCHANGED <<store, L1, contended, ghost, cache_vars, plan_files, nops>>

\* _apply_add from the first flush to the invalidation: the UPDATE of the
\* product waits for the row lock and takes it, the picklist rows are read
\* and staged, invalidate() pops L1 at once and stages the L2 delete.
AddWrite(p) ==
    LET k == tx[p].key
        r == <<tx[p].user, k>>
    IN
    /\ pc[p] = "add_write"
    /\ k \in DOMAIN tx[p].w_qty => row_lock[k] \in {NoProc, p}
    /\ row_lock' = IF k \in DOMAIN tx[p].w_qty THEN [row_lock EXCEPT ![k] = p] ELSE row_lock
    /\ tx' = [tx EXCEPT
                ![p].w_pick = Upd(EmptyFn, r, GetOr(picklist_items, r, 0) + tx[p].alloc),
                ![p].w_over = IF tx[p].overflow > 0
                              THEN Upd(EmptyFn, r,
                                       GetOr(picklist_overflow_items, r, 0) + tx[p].overflow)
                              ELSE EmptyFn,
                ![p].new_pick = {r} \ DOMAIN picklist_items,
                ![p].new_over = IF tx[p].overflow > 0
                                THEN {r} \ DOMAIN picklist_overflow_items ELSE {},
                ![p].del_cache = {k}]
    /\ L1' = [L1 EXCEPT ![p] = Del(L1[p], {k})]
    /\ pc' = [pc EXCEPT ![p] = "add_commit"]
    /\ UNCHANGED <<store, result, pre, contended, ghost, cache_vars, plan_files, nops>>

\* s.commit() of _apply_add.
AddCommit(p) ==
    LET k == tx[p].key IN
    /\ pc[p] = "add_commit"
    /\ ~PicklistConflict(p)
    /\ ck_products_qty_nonneg(tx[p].w_qty)
    /\ products' = WriteQty(tx[p].w_qty)
    /\ picklist_items' = Merge(picklist_items, tx[p].w_pick)
    /\ picklist_overflow_items' = Merge(picklist_overflow_items, tx[p].w_over)
    /\ product_card_cache' = Del(product_card_cache, tx[p].del_cache)
    /\ row_lock' = Released(p)
    /\ Return(p, [kind |-> "added", alloc |-> tx[p].alloc, overflow |-> Num(tx[p].overflow)])
    /\ debited' = [debited EXCEPT ![k] = @ + tx[p].alloc]
    /\ granted' = [granted EXCEPT ![k] = @ + tx[p].alloc]
    /\ last_debit' = [last_debit EXCEPT ![k] =
                         IF tx[p].alloc > 0
                         THEN [on |-> TRUE, pre |-> products[k].qty, post |-> products'[k].qty]
                         ELSE @]
    /\ UNCHANGED <<cache_vars, L1, contended, baseline, plan_files, nops>>

\* The transaction of _apply_add fails (a store failure, or a constraint):
\* the session is closed, which rolls back; the exception leaves the handler.
AddFail(p) ==
    /\ pc[p] = "add_commit"
    /\ row_lock' = Released(p)
    /\ Return(p, [kind |-> "failed"])
    /\ UNCHANGED <<store, L1, contended, ghost, cache_vars, plan_files, nops>>

\* ------------------------------------------------------------------- cards
\* open_product, get_card: an L1 entry older than the TTL is dropped and counts
\* as a miss; an L1 hit is served; an L2 row is copied to L1 and served; a full
\* miss goes on to the renderer.
open_product(p, k, expired) ==
    LET l1 == IF expired THEN Del(L1[p], {k}) ELSE L1[p] IN
    /\ Begin(p)
    /\ IF k \in DOMAIN l1
       THEN /\ L1' = [L1 EXCEPT ![p] = l1]
            /\ Answer(p, [kind |-> "card", card |-> l1[k]])
       ELSE IF k \in DOMAIN product_card_cache
       THEN /\ L1' = [L1 EXCEPT ![p] = Upd(l1, k, product_card_cache[k])]
            /\ Answer(p, [kind |-> "card", card |-> product_card_cache[k]])
       ELSE /\ L1' = [L1 EXCEPT ![p] = l1]
            /\ Enter(p, "open_render", [IdleTx EXCEPT !.key = k])
    /\ UNCHANGED <<store, row_lock, contended, ghost, cache_vars, plan_files>>

\* get_or_render_card on a full miss: the renderer reads the ledger, set_card
\* writes L1 and stages the L2 row; open_product closes the session without a
\* commit, so the staged L2 row is rolled back.
OpenRender(p) ==
    LET k == tx[p].key
        card == render_product_card(k)
    IN
    /\ pc[p] = "open_render"
    /\ L1' = [L1 EXCEPT ![p] = Upd(L1[p], k, card)]
    /\ Return(p, [kind |-> "card", card |-> card])
    /\ UNCHANGED <<store, row_lock, contended, ghost, cache_vars, plan_files, nops>>

\* -------------------------------------------------------------- subtraction
\* The lines parse_subtract_payload keeps: an 8-digit article, a quantity > 0,
\* and the department of the line or DEPT_DEFAULT ("" when there is neither).
NoDept == ""
SubtractItems ==
    [dept_id : Depts, article : Articles, qty : {1, MaxQty}]
        \cup {[dept_id |-> NoDept, article |-> "11111111", qty |-> 1]}
SubKey(it) == <<it.dept_id, it.article>>

\* Every line is kept as a key of its own.
C10_NoAggregation(agg, key, q) == Append(agg, [key |-> key, qty |-> q])

\* agg[key] = agg.get(key, 0.0) + qty, keys in the order of their first line.
AggAdd(agg, key, q) ==
    IF \E i \in 1 .. Len(agg) : agg[i].key = key
    THEN [i \in 1 .. Len(agg) |->
            IF agg[i].key = key THEN [agg[i] EXCEPT !.qty = @ + q] ELSE agg[i]]
    ELSE Append(agg, [key |-> key, qty |-> q])

RECURSIVE Aggregate(_)
Aggregate(items) ==
    IF items = <<>> THEN <<>>
    ELSE LET n == Len(items) IN
         AggAdd(Aggregate(SubSeq(items, 1, n - 1)), SubKey(items[n]), items[n].qty)

\* new_qty = before - qty, not below zero.
Subtracted(before, qty) == IF before - qty < 0 THEN 0 ELSE before - qty

\* The loop ends after its first key.
C11_StopAfterFirstKey(p, t) ==
    /\ pc' = [pc EXCEPT ![p] = "sub_commit"]
    /\ tx' = [tx EXCEPT ![p] = t]

\* The loop of handle_subtract_payload moves to the next key or to the commit.
SubNext(p, t) ==
    IF t.idx >= Len(t.agg)
    THEN /\ pc' = [pc EXCEPT ![p] = "sub_commit"]
         /\ tx' = [tx EXCEPT ![p] = t]
    ELSE /\ pc' = [pc EXCEPT ![p] = "sub_lock"]
         /\ tx' = [tx EXCEPT ![p] = [t EXCEPT !.idx = @ + 1]]

\* handle_subtract_payload up to the opening of the session.
handle_subtract_payload(p, allowed, items) ==
    /\ Begin(p)
    /\ IF ~allowed \/ items = <<>> \/ (\E i \in 1 .. Len(items) : items[i].dept_id = NoDept)
       THEN Answer(p, [kind |-> "rejected"])
       ELSE Enter(p, "sub_lock", [IdleTx EXCEPT !.items = items,
                                                !.agg = Aggregate(items), !.idx = 1])
    /\ UNCHANGED <<store, L1, row_lock, contended, ghost, cache_vars, plan_files>>

\* _subtract_one, the lock statement.
SubLock(p) ==
    /\ pc[p] = "sub_lock"
    /\ SkipLockedSelect(p, tx[p].agg[tx[p].idx].key)
    /\ pc' = [pc EXCEPT ![p] = "sub_read"]
    /\ UNCHANGED <<store, L1, tx, result, pre, ghost, cache_vars, plan_files, nops>>

\* _subtract_one, the read of the product: an absent row raises ValueError,
\* which the loop records as "not found"; a present row gives the new quantity.
SubRead(p) ==
    LET it == tx[p].agg[tx[p].idx]
        k == it.key
        before == products[k].qty
        after == Subtracted(before, it.qty)
    IN
    /\ pc[p] = "sub_read"
    /\ IF k \notin DOMAIN products
       THEN SubNext(p, [tx[p] EXCEPT !.errors = Append(@, [key |-> k, kind |-> "not_found"])])
       ELSE /\ pc' = [pc EXCEPT ![p] = "sub_write"]
            /\ tx' = [tx EXCEPT ![p].available = before,
                                ![p].w_qty = IF after # before THEN Upd(@, k, after) ELSE @]
    /\ UNCHANGED <<store, L1, row_lock, result, pre, contended, ghost, cache_vars, plan_files, nops>>

\* _subtract_one from the flush to its return: the UPDATE waits for the row
\* lock and takes it, _invalidate_card_cache stages the L2 delete (L1 is not
\* touched), and the loop appends the result line.
SubWrite(p) ==
    LET it == tx[p].agg[tx[p].idx]
        k == it.key
        before == tx[p].available
        line == [key |-> k, before |-> before, requested |-> it.qty,
                 after |-> Subtracted(before, it.qty)]
    IN
    /\ pc[p] = "sub_write"
    /\ k \in DOMAIN tx[p].w_qty => row_lock[k] \in {NoProc, p}
    /\ row_lock' = IF k \in DOMAIN tx[p].w_qty THEN [row_lock EXCEPT ![k] = p] ELSE row_lock
    /\ SubNext(p, [tx[p] EXCEPT !.del_cache = @ \cup {k}, !.results = Append(@, line)])
    /\ UNCHANGED <<store, L1, result, pre, contended, ghost, cache_vars, plan_files, nops>>

\* s.commit() of handle_subtract_payload, then the report.
SubCommit(p) ==
    LET lines == tx[p].results
        written == {lines[i].key : i \in 1 .. Len(lines)}
        LineOf(k) == CHOOSE i \in 1 .. Len(lines) : lines[i].key = k
    IN
    /\ pc[p] = "sub_commit"
    /\ ck_products_qty_nonneg(tx[p].w_qty)
    /\ products' = WriteQty(tx[p].w_qty)
    /\ product_card_cache' = Del(product_card_cache, tx[p].del_cache)
    /\ row_lock' = Released(p)
    /\ Return(p, [kind |-> "report", results |-> lines, errors |-> tx[p].errors])
    /\ debited' = [k \in LedgerKeys |->
                     IF k \in written
                     THEN debited[k] + lines[LineOf(k)].before - lines[LineOf(k)].after
                     ELSE debited[k]]
    /\ last_debit' = [k \in LedgerKeys |->
                        IF k \in DOMAIN tx[p].w_qty
                        THEN [last_debit[k] EXCEPT !.on = FALSE] ELSE last_debit[k]]
    /\ UNCHANGED <<cache_vars, picklist_items, picklist_overflow_items, L1, contended,
                   baseline, granted, plan_files, nops>>

\* The commit of handle_subtract_payload raises: the session closes (rollback)
\* and the handler adds the global error line to what it collected.
SubFail(p) ==
    /\ pc[p] = "sub_commit"
    /\ row_lock' = Released(p)
    /\ Return(p, [kind |-> "report", results |-> tx[p].results,
                  errors |-> Append(tx[p].errors, [key |-> <<>>, kind |-> "global"])])
    /\ UNCHANGED <<store, L1, contended, ghost, cache_vars, plan_files, nops>>

\* ------------------------------------------------------------------- import
\* An optional number of a plan item (None when the cell is empty).
None == [has |-> FALSE, v |-> 0]
Some(n) == [has |-> TRUE, v |-> n]
ImportQtys == {None} \cup {Some(n) : n \in {-1, MaxQty}}
\* The rows normalize_import_table keeps: department, 8-digit article, quantity.
ImportRows == [dept_id : Depts, article : Articles, qty : ImportQtys]
Tokens == {"t1", "t2"}

\* MAX_DEACTIVATE_SHARE = 0.5 as a fraction, DEACTIVATE_MISSING = "1".
MaxShareNum == 1
MaxShareDen == 2
DEACTIVATE_MISSING == TRUE

RowKey(r) == <<r.dept_id, r.article>>
SeqKeys(rows) == {RowKey(rows[i]) : i \in 1 .. Len(rows)}

\* The threshold test with >= in the place of >.
C16_ShareAtLeast(ndeact, ndb) == ndeact * MaxShareDen >= MaxShareNum * Max(ndb, 1)

\* share > MAX_DEACTIVATE_SHARE, with total = len(db_map) or 1.
ShareExceeded(ndeact, ndb) == ndeact * MaxShareDen > MaxShareNum * Max(ndb, 1)

\* A dry run that classifies every row as an insert.
C17_AllInserted(rows, token) ==
    LET involved == {rows[i].dept_id : i \in 1 .. Len(rows)}
        db_map == {k \in DOMAIN products : k[1] \in involved}
        deact == IF DEACTIVATE_MISSING THEN db_map \ SeqKeys(rows) ELSE {}
    IN [token |-> token,
        to_insert |-> rows,
        to_update |-> <<>>,
        involved_depts |-> involved,
        to_deactivate |-> deact,
        deactivate_allowed |-> ~ShareExceeded(Cardinality(deact), Cardinality(db_map))]

\* A dry run that reads the rows of every department.
C35_AllDepartments(ledger, rows, token) ==
    LET involved == {rows[i].dept_id : i \in 1 .. Len(rows)}
        db_map == DOMAIN ledger
        InDb(r) == RowKey(r) \in db_map
        NotInDb(r) == RowKey(r) \notin db_map
        deact == IF DEACTIVATE_MISSING THEN db_map \ SeqKeys(rows) ELSE {}
    IN [token |-> token,
        to_insert |-> SelectSeq(rows, NotInDb),
        to_update |-> SelectSeq(rows, InDb),
        involved_depts |-> involved,
        to_deactivate |-> deact,
        deactivate_allowed |-> ~ShareExceeded(Cardinality(deact), Cardinality(db_map))]

\* The plan of the rows against the ledger rows the dry run has read.
PlanAgainst(ledger, rows, token) ==
    LET involved == {rows[i].dept_id : i \in 1 .. Len(rows)}
        db_map == {k \in DOMAIN ledger : k[1] \in involved}
        InDb(r) == RowKey(r) \in db_map
        NotInDb(r) == RowKey(r) \notin db_map
        deact == IF DEACTIVATE_MISSING THEN db_map \ SeqKeys(rows) ELSE {}
    IN [token |-> token,
        to_insert |-> SelectSeq(rows, NotInDb),
        to_update |-> SelectSeq(rows, InDb),
        involved_depts |-> involved,
        to_deactivate |-> deact,
        deactivate_allowed |-> ~ShareExceeded(Cardinality(deact), Cardinality(db_map))]

\* _prepare_import_plan: the plan of the rows against the committed ledger.
_prepare_import_plan(rows, token) == PlanAgainst(products, rows, token)

\* The rows of an uploaded table: the article cell may hold no 8-digit article.
NoArticle == "-"
RawRows == ImportRows \cup [dept_id : Depts, article : {NoArticle}, qty : {None}]

\* normalize_import_table, step 11: the rows whose article is None are dropped.
HasArticle(r) == r.article # NoArticle
normalize_import_table(raw) == SelectSeq(raw, HasArticle)

\* A table that is let through whatever it holds.
C22_NoArticleCheck(rows) == TRUE

\* require_any_articles: NoArticlesError when no row is left.
require_any_articles(rows) == rows # <<>>

\* is_admin: True for a listed user; for anyone else bool(ADMIN_IDS).
is_admin(user) ==
    IF ADMIN_IDS # {} /\ user \in ADMIN_IDS THEN TRUE ELSE ADMIN_IDS # {}

\* _handle_import_file after the download: the admin check, the normalization
\* and the refusal of a table without articles, the dry run, and _save_plan
\* under the plan's token.
_handle_import_file(p, allowed, raw, token) ==
    LET rows == normalize_import_table(raw)
        plan == _prepare_import_plan(rows, token)
    IN
    /\ Begin(p)
    /\ UNCHANGED <<store, L1, row_lock, contended, ghost, cache_vars>>
    /\ IF ~allowed
       THEN /\ Answer(p, [kind |-> "rejected"])
            /\ UNCHANGED plan_files
       ELSE IF ~require_any_articles(rows)
       THEN /\ Answer(p, [kind |-> "no_articles"])
            /\ UNCHANGED plan_files
       ELSE IF plan.to_insert = <<>> /\ plan.to_update = <<>>
               /\ ~(DEACTIVATE_MISSING /\ plan.to_deactivate # {})
       THEN /\ Answer(p, [kind |-> "no_changes"])
            /\ UNCHANGED plan_files
       ELSE /\ Answer(p, [kind |-> "plan", token |-> token])
            /\ plan_files' = Upd(plan_files, token, plan)

\* A missing quantity is written as 0.
C34_MissingAsZero(rec, it) ==
    [rec EXCEPT !.qty = IF it.qty.has THEN it.qty.v ELSE 0, !.active = TRUE]

\* The fields of a plan item written on a ledger object: qty when present,
\* and active = True.
WithFields(rec, it) ==
    [rec EXCEPT !.qty = IF it.qty.has THEN it.qty.v ELSE @, !.active = TRUE]

\* One item of the INSERT loop of _cb_apply_import.
ApplyInsertItem(st, it) ==
    LET key == RowKey(it) IN
    IF key \in DOMAIN st.objs
    THEN [st EXCEPT !.objs = Upd(@, key, WithFields(st.objs[key], it))]
    ELSE [st EXCEPT !.ins = Append(@, [key |-> key,
                                       qty |-> IF it.qty.has THEN it.qty.v ELSE 0,
                                       active |-> TRUE])]

\* An UPDATE loop that passes over an item whose row is gone.
C33_UpdateSkipsMissing(st, it) ==
    LET key == RowKey(it) IN
    IF key \in DOMAIN st.objs
    THEN [st EXCEPT !.objs = Upd(@, key, WithFields(st.objs[key], it))]
    ELSE st

\* One item of the UPDATE loop of _cb_apply_import.
ApplyUpdateItem(st, it) ==
    LET key == RowKey(it) IN
    IF key \in DOMAIN st.objs
    THEN [st EXCEPT !.objs = Upd(@, key, WithFields(st.objs[key], it))]
    ELSE [st EXCEPT !.ins = Append(@, [key |-> key,
                                       qty |-> IF it.qty.has THEN it.qty.v ELSE 0,
                                       active |-> TRUE])]

RECURSIVE ApplyInserts(_, _)
ApplyInserts(st, items) ==
    IF items = <<>> THEN st
    ELSE ApplyInserts(ApplyInsertItem(st, Head(items)), Tail(items))

RECURSIVE ApplyUpdates(_, _)
ApplyUpdates(st, items) ==
    IF items = <<>> THEN st
    ELSE ApplyUpdates(ApplyUpdateItem(st, Head(items)), Tail(items))

\* The DEACTIVATE block without the test of plan.deactivate_allowed.
C15_DeactivateRegardless(st, plan) ==
    [st EXCEPT !.objs =
        [k \in DOMAIN st.objs |->
            IF k \in plan.to_deactivate /\ st.objs[k].active
            THEN [st.objs[k] EXCEPT !.active = FALSE] ELSE st.objs[k]]]

\* The DEACTIVATE block of _cb_apply_import.
ApplyDeactivate(st, plan) ==
    IF DEACTIVATE_MISSING /\ plan.deactivate_allowed /\ plan.to_deactivate # {}
    THEN [st EXCEPT !.objs =
            [k \in DOMAIN st.objs |->
                IF k \in plan.to_deactivate /\ st.objs[k].active
                THEN [st.objs[k] EXCEPT !.active = FALSE] ELSE st.objs[k]]]
    ELSE st

\* The session objects of _cb_apply_import before its commit.
ApplyPlanTo(existing, plan) ==
    ApplyDeactivate(
        ApplyUpdates(ApplyInserts([objs |-> existing, ins |-> <<>>], plan.to_insert),
                     plan.to_update),
        plan)

\* _cb_apply_import up to the commit: the admin check, _load_plan, the read of
\* the rows of the involved departments, and the three loops.
_cb_apply_import(p, allowed, token) ==
    LET plan == plan_files[token]
        existing == [k \in {x \in DOMAIN products : x[1] \in plan.involved_depts}
                       |-> products[k]]
        st == ApplyPlanTo(existing, plan)
    IN
    /\ Begin(p)
    /\ UNCHANGED <<store, L1, row_lock, contended, ghost, cache_vars, plan_files>>
    /\ IF ~allowed \/ token \notin DOMAIN plan_files
       THEN Answer(p, [kind |-> "rejected"])
       ELSE Enter(p, "apply_commit", [IdleTx EXCEPT !.plan = plan, !.existing = existing,
                                                    !.objs = st.objs, !.ins = st.ins])

\* The columns of a loaded object that the handler changed.
Dirty(p, k) == {f \in {"qty", "active"} : tx[p].objs[k][f] # tx[p].existing[k][f]}
DirtyKeys(p) == {k \in DOMAIN tx[p].objs : Dirty(p, k) # {}}
InsertedKeys(p) == {tx[p].ins[i].key : i \in 1 .. Len(tx[p].ins)}

\* uq_products_dept_article and ck_products_qty_nonneg at the flush of the apply.
ApplyConstraintsHold(p) ==
    /\ \A i, j \in 1 .. Len(tx[p].ins) : tx[p].ins[i].key = tx[p].ins[j].key => i = j
    /\ InsertedKeys(p) \cap DOMAIN products = {}
    /\ ck_products_qty_nonneg([i \in 1 .. Len(tx[p].ins) |-> tx[p].ins[i].qty])
    /\ ck_products_qty_nonneg([k \in {x \in DOMAIN tx[p].objs : "qty" \in Dirty(p, x)}
                                 |-> tx[p].objs[k].qty])

\* The ledger after the flush: changed columns of loaded rows, then new rows.
AppliedLedger(p) ==
    [k \in DOMAIN products \cup InsertedKeys(p) |->
        IF k \in DOMAIN products
        THEN IF k \in DOMAIN tx[p].objs
             THEN [f \in {"qty", "active"} |->
                     IF f \in Dirty(p, k) THEN tx[p].objs[k][f] ELSE products[k][f]]
             ELSE products[k]
        ELSE LET i == CHOOSE j \in 1 .. Len(tx[p].ins) : tx[p].ins[j].key = k
             IN [qty |-> tx[p].ins[i].qty, active |-> tx[p].ins[i].active]]

\* s.commit() of _cb_apply_import: the UPDATEs wait for the row locks; the
\* plan file stays where it is.
ApplyCommit(p) ==
    LET qtyset == {k \in DirtyKeys(p) : "qty" \in Dirty(p, k)} \cup InsertedKeys(p) IN
    /\ pc[p] = "apply_commit"
    /\ \A k \in DirtyKeys(p) : row_lock[k] \in {NoProc, p}
    /\ ApplyConstraintsHold(p)
    /\ products' = AppliedLedger(p)
    /\ row_lock' = Released(p)
    /\ Return(p, [kind |-> "applied", token |-> tx[p].plan.token])
    /\ baseline' = [k \in LedgerKeys |-> IF k \in qtyset THEN products'[k].qty ELSE baseline[k]]
    /\ debited' = [k \in LedgerKeys |-> IF k \in qtyset THEN 0 ELSE debited[k]]
    /\ last_debit' = [k \in LedgerKeys |->
                        IF k \in qtyset THEN [last_debit[k] EXCEPT !.on = FALSE]
                        ELSE last_debit[k]]
    /\ UNCHANGED <<cache_vars, picklist_items, picklist_overflow_items, product_card_cache, L1,
                   contended, granted, plan_files, nops>>

\* A failed apply that also removes the plan file.
C20_FailConsumesPlan(p) ==
    /\ pc[p] = "apply_commit"
    /\ row_lock' = Released(p)
    /\ Return(p, [kind |-> "apply_failed", token |-> tx[p].plan.token])
    /\ plan_files' = Del(plan_files, {tx[p].plan.token})
    /\ UNCHANGED <<store, L1, contended, ghost, cache_vars, nops>>

\* The commit of _cb_apply_import raises (a constraint or a store failure):
\* the session closes, which rolls back, and the handler answers with an error.
ApplyFail(p) ==
    /\ pc[p] = "apply_commit"
    /\ row_lock' = Released(p)
    /\ Return(p, [kind |-> "apply_failed", token |-> tx[p].plan.token])
    /\ UNCHANGED <<store, L1, contended, ghost, cache_vars, plan_files, nops>>

\* _cb_cancel_import: the plan file is removed when it exists.
_cb_cancel_import(p, token) ==
    /\ Begin(p)
    /\ plan_files' = Del(plan_files, {token})
    /\ Answer(p, [kind |-> "cancelled"])
    /\ UNCHANGED <<store, L1, row_lock, contended, ghost, cache_vars>>

\* --------------------------------------------------------------- card cache
\* utils/card_cache on its own, with what the handlers above leave out: the
\* file ids, the age and the recency of the L1 entries and the capacity.
CARD_L1_TTL_SEC == 1      \* seconds an L1 entry is served
CARD_L1_MAX_ITEMS == 2    \* capacity of L1
MaxTime == 2              \* seconds the clock runs
MaxCalls == 4             \* calls of the cache API in one behaviour

CacheKeys == Depts \X (Articles \cup {"33333333"})
NoFile == "None"
FileIds == {"f1", "f2"}
\* A card_json: its fields but "file_id" as body, and "file_id" (NoFile when
\* the dict has no such key).
Body(k, qty) ==
    [dept_id |-> k[1], article |-> k[2], found |-> TRUE, available |-> qty, can_add |-> qty > 0]
Payloads(k) == {[body |-> Body(k, 0), file_id |-> NoFile], [body |-> Body(k, MaxQty), file_id |-> "f1"]}
NoEntry == [none |-> TRUE]
engine_vars == <<store, L1, row_lock, pc, tx, result, pre, contended, ghost, plan_files>>

\* _use is a dict: a new key goes to the end, a key that is there keeps its place.
UseHas(use, k) == \E i \in 1 .. Len(use) : use[i].k = k
UsePut(use, k, t) ==
    IF UseHas(use, k)
    THEN [i \in 1 .. Len(use) |-> IF use[i].k = k THEN [k |-> k, t |-> t] ELSE use[i]]
    ELSE Append(use, [k |-> k, t |-> t])
UsePop(use, k) ==
    LET Other(e) == e.k # k IN SelectSeq(use, Other)

\* An L1 that never evicts.
C28_NoEviction(c) == c

\* _LRUCache._evict_if_needed: min(self._use, key=self._use.get) is the first
\* key of the dict among those with the smallest time.
_evict_if_needed(c) ==
    IF CARD_L1_MAX_ITEMS <= 0 \/ Cardinality(DOMAIN c._data) <= CARD_L1_MAX_ITEMS
    THEN c
    ELSE LET i == CHOOSE n \in 1 .. Len(c._use) :
                    /\ \A m \in 1 .. Len(c._use) : c._use[m].t >= c._use[n].t
                    /\ \A m \in 1 .. (n - 1) : c._use[m].t > c._use[n].t
             k_old == c._use[i].k
         IN [_data |-> Del(c._data, {k_old}), _use |-> UsePop(c._use, k_old)]

\* _LRUCache.invalidate
_LRUCache_invalidate(c, k) == [_data |-> Del(c._data, {k}), _use |-> UsePop(c._use, k)]

\* An entry is served whatever its age.
C30_NeverExpires(e, t) == FALSE

\* self.ttl and now - e.ts > self.ttl
Expired(e, t) == CARD_L1_TTL_SEC # 0 /\ t - e.ts > CARD_L1_TTL_SEC

\* _LRUCache.get at time t: the cache afterwards and the entry or NoEntry.
_LRUCache_get(c, k, t) ==
    IF k \notin DOMAIN c._data THEN [c |-> c, e |-> NoEntry]
    ELSE IF Expired(c._data[k], t)
    THEN [c |-> _LRUCache_invalidate(c, k), e |-> NoEntry]
    ELSE [c |-> [c EXCEPT !._use = UsePut(@, k, t)], e |-> c._data[k]]

\* _LRUCache.set at time t
_LRUCache_set(c, k, value, file_id, t) ==
    _evict_if_needed([_data |-> Upd(c._data, k, [value |-> value, file_id |-> file_id, ts |-> t]),
                      _use |-> UsePut(c._use, k, t)])

\* The file id of the entry replaces the one of the dict.
C24_OverwriteFile(value, file_id) ==
    IF file_id # NoFile THEN [value EXCEPT !.file_id = file_id] ELSE value

\* data = dict(value); if file_id: data.setdefault("file_id", file_id)
SetDefaultFile(value, file_id) ==
    IF file_id # NoFile /\ value.file_id = NoFile
    THEN [value EXCEPT !.file_id = file_id] ELSE value

\* A get_card that reads the L2 rows whether the tier is on or off.
C31_ReadsL2Always(S, k, t) ==
    LET g == _LRUCache_get(S.l1, k, t) IN
    IF g.e # NoEntry
    THEN [S |-> [S EXCEPT !.l1 = g.c], ret |-> SetDefaultFile(g.e.value, g.e.file_id)]
    ELSE IF k \in DOMAIN S.rows
    THEN LET data == SetDefaultFile(S.rows[k].card_json, S.rows[k].file_id)
         IN [S |-> [S EXCEPT !.l1 = _LRUCache_set(g.c, k, data, S.rows[k].file_id, t)],
             ret |-> data]
    ELSE [S |-> [S EXCEPT !.l1 = g.c], ret |-> NoEntry]

\* get_card on the cache S = [l1, rows] at time t: the cache afterwards and
\* the returned dict or NoEntry (None).
get_card(S, k, t) ==
    LET g == _LRUCache_get(S.l1, k, t) IN
    IF g.e # NoEntry
    THEN [S |-> [S EXCEPT !.l1 = g.c], ret |-> SetDefaultFile(g.e.value, g.e.file_id)]
    ELSE IF CARD_L2_ENABLED /\ k \in DOMAIN S.rows
    THEN LET data == SetDefaultFile(S.rows[k].card_json, S.rows[k].file_id)
         IN [S |-> [S EXCEPT !.l1 = _LRUCache_set(g.c, k, data, S.rows[k].file_id, t)],
             ret |-> data]
    ELSE [S |-> [S EXCEPT !.l1 = g.c], ret |-> NoEntry]

\* set_card: L1, and the L2 row, whose file_id is written only when one is given.
set_card(S, k, card_json, file_id, t) ==
    [l1 |-> _LRUCache_set(S.l1, k, card_json, file_id, t),
     rows |-> IF ~CARD_L2_ENABLED THEN S.rows
              ELSE Upd(S.rows, k,
                       [card_json |-> card_json,
                        file_id |-> IF file_id # NoFile THEN file_id
                                    ELSE IF k \in DOMAIN S.rows THEN S.rows[k].file_id
                                    ELSE NoFile])]

\* update_file_id
update_file_id(S, k, file_id, t) ==
    LET g == _LRUCache_get(S.l1, k, t) IN
    [l1 |-> IF g.e # NoEntry THEN _LRUCache_set(g.c, k, g.e.value, file_id, t) ELSE g.c,
     rows |-> IF CARD_L2_ENABLED /\ k \in DOMAIN S.rows
              THEN [S.rows EXCEPT ![k].file_id = file_id] ELSE S.rows]

\* An invalidate that leaves the L2 row.
C25_InvalidateL1Only(S, k) == [S EXCEPT !.l1 = _LRUCache_invalidate(S.l1, k)]

\* invalidate
invalidate(S, k) ==
    [l1 |-> _LRUCache_invalidate(S.l1, k),
     rows |-> IF CARD_L2_ENABLED THEN Del(S.rows, {k}) ELSE S.rows]

\* invalidate_many: the keys one after the other.
RECURSIVE invalidate_many(_, _)
invalidate_many(S, pairs) ==
    IF pairs = <<>> THEN S
    ELSE invalidate_many(invalidate(S, Head(pairs)), Tail(pairs))

\* _pick_approved_photo: the first article has an approved photo.
_pick_approved_photo(k) == IF k[2] = "11111111" THEN "f1" ELSE NoFile

\* A renderer that shows every key as a product in stock.
C29_RenderAsFound(k) ==
    [card_json |-> [body |-> Body(k, MaxQty), file_id |-> NoFile], file_id |-> NoFile]

\* The renderer handed to get_or_render_card: (card_json, file_id); a product
\* that is not found has no photo.
Renderer(k) ==
    [card_json |-> [body |-> render_product_card(k), file_id |-> NoFile],
     file_id |-> IF k \in DOMAIN products THEN _pick_approved_photo(k) ELSE NoFile]

\* A get_or_render_card that caches the card without its file id.
C26_FileIdNotCached(S, k, t) ==
    LET g == get_card(S, k, t)
        r == Renderer(k)
    IN IF g.ret # NoEntry THEN g
       ELSE [S |-> set_card(g.S, k, r.card_json, NoFile, t),
             ret |-> IF r.file_id # NoFile
                     THEN [r.card_json EXCEPT !.file_id = r.file_id] ELSE r.card_json]

\* get_or_render_card
get_or_render_card(S, k, t) ==
    LET g == get_card(S, k, t)
        r == Renderer(k)
    IN IF g.ret # NoEntry THEN g
       ELSE [S |-> set_card(g.S, k, r.card_json, r.file_id, t),
             ret |-> IF r.file_id # NoFile
                     THEN [r.card_json EXCEPT !.file_id = r.file_id] ELSE r.card_json]

\* The lists of keys handed to invalidate_many.
KeyPairs ==
    { <<<<"100", "11111111">>, <<"100", "22222222">>>>,
      <<<<"100", "22222222">>, <<"100", "33333333">>>>,
      <<<<"100", "33333333">>, <<"100", "33333333">>>> }

\* The cache the calls work on.
Cache == [l1 |-> _L1, rows |-> ProductCardCache]

\* One call of the API: the cache afterwards and the record of the call.
Called(S, c) ==
    /\ nops < MaxCalls
    /\ nops' = nops + 1
    /\ _L1' = S.l1
    /\ ProductCardCache' = S.rows
    /\ call' = c
    /\ UNCHANGED <<time, CARD_L2_ENABLED, ADMIN_IDS, from_user, engine_vars>>

CallGet(k) ==
    LET g == get_card(Cache, k, time)
    IN Called(g.S, [op |-> "get_card", key |-> k, ret |-> g.ret])
CallSet(k, card_json, file_id) ==
    Called(set_card(Cache, k, card_json, file_id, time),
           [op |-> "set_card", key |-> k, card_json |-> card_json, file_id |-> file_id])
CallUpdateFileId(k, file_id) ==
    Called(update_file_id(Cache, k, file_id, time),
           [op |-> "update_file_id", key |-> k, file_id |-> file_id])
CallInvalidate(k) ==
    Called(invalidate(Cache, k), [op |-> "invalidate", key |-> k])
CallInvalidateMany(pairs) ==
    Called(invalidate_many(Cache, pairs), [op |-> "invalidate_many", pairs |-> pairs])
CallGetOrRender(k) ==
    LET g == get_or_render_card(Cache, k, time)
    IN Called(g.S, [op |-> "get_or_render_card", key |-> k, ret |-> g.ret,
                    rendered |-> get_card(Cache, k, time).ret = NoEntry])

\* The clock advances by one unit.
Tick ==
    /\ time < MaxTime
    /\ time' = time + 1
    /\ UNCHANGED <<_L1, ProductCardCache, call, CARD_L2_ENABLED, ADMIN_IDS, from_user, nops, engine_vars>>

\* The rows of product_card_cache that other instances or an earlier run of the
\* process have left for the first key.
CachedRows ==
    {EmptyFn} \cup
    { Upd(EmptyFn, <<"100", "11111111">>, [card_json |-> c, file_id |-> f]) :
        c \in Payloads(<<"100", "11111111">>), f \in {NoFile, "f2"} }

\* The cache of a process that has just started.
\* The ADMIN_IDS setting read at import time and the sender of the import updates.
SettingsStarted(admins, senders) ==
    /\ ADMIN_IDS \in admins
    /\ from_user \in senders

CardsStarted(rows, l2) ==
    /\ _L1 = [_data |-> EmptyFn, _use |-> <<>>]
    /\ ProductCardCache \in rows
    /\ time = 0
    /\ call = [op |-> "none"]
    /\ CARD_L2_ENABLED \in l2

CacheStarted(rows, l2) == CardsStarted(rows, l2) /\ SettingsStarted({{"u1"}}, {"u1"})

\* -------------------------------------------------------------- the system
\* The ledgers a behaviour starts from: rows left by earlier imports.
InitLedgers ==
    { [k \in S |-> [qty |-> q[k], active |-> TRUE]] :
        S \in SUBSET Keys, q \in [Keys -> {0, MaxQty}] }

\* The state after start-up, with the plan files an earlier dry run left.
EngineStarted(ledgers, plans) ==
    /\ products \in ledgers
    /\ picklist_items = EmptyFn
    /\ picklist_overflow_items = EmptyFn
    /\ product_card_cache = EmptyFn
    /\ L1 = [p \in Procs |-> EmptyFn]
    /\ row_lock = [k \in LedgerKeys |-> NoProc]
    /\ pc = [p \in Procs |-> "idle"]
    /\ tx = [p \in Procs |-> IdleTx]
    /\ result = [p \in Procs |-> [kind |-> "none"]]
    /\ pre = [p \in Procs |-> IdlePre]
    /\ contended = [p \in Procs |-> FALSE]
    /\ baseline = [k \in LedgerKeys |-> IF k \in DOMAIN products THEN products[k].qty ELSE 0]
    /\ debited = [k \in LedgerKeys |-> 0]
    /\ granted = [k \in LedgerKeys |-> 0]
    /\ last_debit = [k \in LedgerKeys |-> [on |-> FALSE, pre |-> 0, post |-> 0]]
    /\ plan_files \in plans
    /\ nops = 0

\* The state after start-up: nothing is cached yet.
Started(ledgers, plans) == EngineStarted(ledgers, plans) /\ CacheStarted({EmptyFn}, {TRUE})

Init == Started(InitLedgers, {EmptyFn})

\* A dry run of a one-row file against the starting ledger may have been saved.
SavedPlans ==
    {EmptyFn} \cup
    { Upd(EmptyFn, "t1", _prepare_import_plan(<<r>>, "t1")) :
        r \in {x \in ImportRows : x.article = "11111111" /\ x.qty.has} }
InitConc == Started(InitLedgers, SavedPlans)

BatchesOf(S) == UNION {[1 .. n -> S] : n \in 0 .. MaxBatch}

\* The bot instances are interchangeable: the first request is served by p1.
Serves(p) == p = "p1" \/ nops > 0

\* What the requests may carry.  A request that is rejected before a session is
\* opened shares nothing with the other instances, so the interleaved
\* specification starts only the requests that pass their validation.
AllRequests == [texts |-> QtyTexts, perms |-> BOOLEAN,
                batches |-> BatchesOf(SubtractItems), tables |-> BatchesOf(ImportRows)]
SessionRequests ==
    [texts |-> {NumText(1), NumText(MaxReq)}, perms |-> {TRUE},
     batches |-> [1 .. 1 -> [dept_id : Depts, article : Articles, qty : {1, MaxQty}]],
     tables |-> [1 .. 1 -> ImportRows]]

\* A handler of the allocation and subtraction engine or a card is started.
StartEngine(p, R) ==
    \/ \E u \in Users, k \in Keys, t \in R.texts : add_fixed(p, u, k, t)
    \/ \E u \in Users, k \in Keys, t \in R.texts : add_custom_receive(p, u, k, t)
    \/ \E k \in Keys, expired \in BOOLEAN : open_product(p, k, expired)
    \/ \E allowed \in R.perms, items \in R.batches :
          handle_subtract_payload(p, allowed, items)

\* A handler of the import is started.
StartImport(p, R) ==
    \/ \E allowed \in R.perms, rows \in R.tables, token \in Tokens :
          _handle_import_file(p, allowed, rows, token)
    \/ \E allowed \in R.perms, token \in Tokens : _cb_apply_import(p, allowed, token)
    \/ \E token \in Tokens : _cb_cancel_import(p, token)

\* A started handler takes its next step.
StepEngine(p) ==
    \/ AddLock(p) \/ AddRead(p) \/ AddWrite(p) \/ AddCommit(p) \/ AddFail(p)
    \/ OpenRender(p)
    \/ SubLock(p) \/ SubRead(p) \/ SubWrite(p) \/ SubCommit(p) \/ SubFail(p)

StepImport(p) == ApplyCommit(p) \/ ApplyFail(p)

\* One request at a time: every handler runs to its end before the next starts.
Next ==
    \E p \in Procs :
        \/ AllIdle /\ Serves(p) /\ StartEngine(p, AllRequests)
        \/ StepEngine(p)
Spec == Init /\ [][Next]_vars

\* Several bot instances: the statements of their handlers interleave.
NextConc ==
    \E p \in Procs :
        \/ Serves(p) /\ (StartEngine(p, SessionRequests) \/ StartImport(p, SessionRequests))
        \/ StepEngine(p) \/ StepImport(p)
SpecConc == InitConc /\ [][NextConc]_vars

\* The ledgers of the import: the old articles may be there as well.
ImportLedgers ==
    { Merge(l, old) :
        l \in InitLedgers,
        old \in {EmptyFn, [k \in Depts \X OldArticles |-> [qty |-> MaxQty, active |-> TRUE]]} }

\* The dry run on its own: files are received and plans are saved or cancelled.
\* The token of a new plan is a fresh one.
StartDryRun(p) ==
    \/ \E allowed \in BOOLEAN, raw \in BatchesOf(RawRows) :
          _handle_import_file(p, allowed, raw, CHOOSE t \in Tokens : t \notin DOMAIN plan_files)
    \/ \E token \in Tokens : _cb_cancel_import(p, token)
NextPlan == \E p \in Procs : Serves(p) /\ StartDryRun(p)
InitPlan == Started(ImportLedgers, {EmptyFn})
SpecPlan == InitPlan /\ [][NextPlan]_vars

\* The apply on its own: one request at a time, from a start where a dry run
\* of any table against the starting ledger may have been saved; plans are
\* applied or cancelled and the cards of the products are opened.
DryRunPlans ==
    {EmptyFn} \cup
    { Upd(EmptyFn, "t1", _prepare_import_plan(rows, "t1")) :
        rows \in BatchesOf(ImportRows) \ {<<>>} }
InitImport == Started(ImportLedgers, DryRunPlans)

StartApply(p) ==
    \/ \E allowed \in BOOLEAN, token \in Tokens : _cb_apply_import(p, allowed, token)
    \/ \E token \in Tokens : _cb_cancel_import(p, token)
    \/ \E k \in Keys, expired \in BOOLEAN : open_product(p, k, expired)

NextImport ==
    \E p \in Procs :
        \/ AllIdle /\ Serves(p) /\ StartApply(p)
        \/ StepImport(p) \/ OpenRender(p)
SpecImport == InitImport /\ [][NextImport]_vars

\* The same with a plan whose dry run has read a ledger that rows have been
\* added to or removed from since.
StalePlans ==
    {EmptyFn} \cup
    { Upd(EmptyFn, "t1", PlanAgainst(l, rows, "t1")) :
        l \in ImportLedgers, rows \in BatchesOf(ImportRows) \ {<<>>} }
InitStale == Started(ImportLedgers, StalePlans)
SpecStale == InitStale /\ [][NextImport]_vars

\* Dry run and apply on a ledger that also holds a row of a department no
\* uploaded table names, with an article the tables do name.
OtherDeptRow == Upd(EmptyFn, <<"200", "11111111">>, [qty |-> MaxQty, active |-> TRUE])
InitDepts == Started({Merge(l, OtherDeptRow) : l \in ImportLedgers}, {EmptyFn})
NextDepts ==
    \E p \in Procs :
        \/ AllIdle /\ Serves(p) /\ (StartDryRun(p) \/ StartApply(p))
        \/ StepImport(p) \/ OpenRender(p)
SpecDepts == InitDepts /\ [][NextDepts]_vars

\* The dry run with the token the code gives: _short_token keeps the low eight
\* hex digits of the clock's milliseconds, here the clock modulo the number of
\* token values; a tick is one millisecond and the instances share the clock.
_short_token == IF time % Cardinality(Tokens) = 0 THEN "t1" ELSE "t2"
ClockDryRun(p) ==
    \/ \E raw \in BatchesOf(RawRows) : _handle_import_file(p, TRUE, raw, _short_token)
    \/ \E token \in Tokens : _cb_cancel_import(p, token)
NextTokens ==
    \/ \E p \in Procs : Serves(p) /\ ClockDryRun(p)
    \/ Tick
SpecTokens == InitPlan /\ [][NextTokens]_vars

\* The import as its users reach it: any ADMIN_IDS setting, and one sender whose
\* files and confirm buttons pass through is_admin.
InitAdmin ==
    /\ EngineStarted(InitLedgers, {EmptyFn})
    /\ CardsStarted({EmptyFn}, {TRUE})
    /\ SettingsStarted(SUBSET Users, Users)
StartAdmin(p) ==
    \/ \E raw \in BatchesOf(RawRows) :
          _handle_import_file(p, is_admin(from_user), raw,
                              CHOOSE t \in Tokens : t \notin DOMAIN plan_files)
    \/ \E token \in Tokens : _cb_apply_import(p, is_admin(from_user), token)
NextAdmin ==
    \E p \in Procs :
        \/ AllIdle /\ Serves(p) /\ StartAdmin(p)
        \/ StepImport(p)
SpecAdmin == InitAdmin /\ [][NextAdmin]_vars

\* The cache on its own: the calls of its API in any order while time passes.
CacheLedgers ==
    { [k \in {<<"100", "11111111">>, <<"100", "22222222">>} |->
          [qty |-> IF k[2] = "11111111" THEN MaxQty ELSE 0, active |-> TRUE]] }
InitCache == EngineStarted(CacheLedgers, {EmptyFn}) /\ CacheStarted(CachedRows, {TRUE})

NextCache ==
    \/ \E k \in CacheKeys : CallGet(k)
    \/ \E k \in CacheKeys, file_id \in {NoFile, "f2"} : \E card_json \in Payloads(k) :
          CallSet(k, card_json, file_id)
    \/ \E k \in CacheKeys, file_id \in FileIds : CallUpdateFileId(k, file_id)
    \/ \E k \in CacheKeys : CallInvalidate(k)
    \/ \E pairs \in KeyPairs : CallInvalidateMany(pairs)
    \/ \E k \in CacheKeys : CallGetOrRender(k)
    \/ Tick
SpecCache == InitCache /\ [][NextCache]_vars

\* The same with the L2 tier switched on or off at start-up.
InitTiers == EngineStarted(CacheLedgers, {EmptyFn}) /\ CacheStarted(CachedRows, BOOLEAN)
SpecTiers == InitTiers /\ [][NextCache]_vars

\* ================================================================== claims
InAdd(p) == pc[p] \in {"add_lock", "add_read", "add_write", "add_commit"}
\* The step on which _apply_add returns (alloc, overflow).
AddReturns(p) == InAdd(p) /\ pc'[p] = "idle" /\ result'[p].kind = "added"
FloatEq(a, b) == ~a.nan /\ ~b.nan /\ a.v = b.v

C2_AllocPlusOverflow ==
    [][\A p \in Procs :
          AddReturns(p) =>
              /\ ~result'[p].overflow.nan
              /\ FloatEq(Num(result'[p].alloc + result'[p].overflow.v), tx[p].req)
              /\ result'[p].alloc >= 0
              /\ result'[p].overflow.v >= 0]_vars

\* C3: on an existing row and for a numeric request, _apply_add returns
\* alloc = min(available, requested) and overflow = requested - alloc, takes
\* exactly alloc from the ledger row, adds alloc to the user's picklist row
\* (started at 0 when absent) and, when overflow > 0, adds overflow to the
\* user's overflow row, which it otherwise leaves alone.
C3_AllocateExisting ==
    [][\A p \in Procs :
          (pc[p] = "add_commit" /\ AddReturns(p) /\ ~tx[p].req.nan) =>
              LET k == tx[p].key
                  r == <<tx[p].user, k>>
                  available == pre[p].products[k].qty
                  requested == tx[p].req.v
                  alloc == result'[p].alloc
                  overflow == result'[p].overflow.v
              IN /\ alloc = (IF available <= requested THEN available ELSE requested)
                 /\ overflow = requested - alloc
                 /\ products'[k].qty = available - alloc
                 /\ r \in DOMAIN picklist_items'
                 /\ picklist_items'[r] = GetOr(pre[p].picklist_items, r, 0) + alloc
                 /\ overflow > 0 =>
                       /\ r \in DOMAIN picklist_overflow_items'
                       /\ picklist_overflow_items'[r] =
                             GetOr(pre[p].picklist_overflow_items, r, 0) + overflow
                 /\ overflow = 0 =>
                       picklist_overflow_items' = pre[p].picklist_overflow_items]_vars

\* Scenario A at the model's scale: a row of MaxQty, a request of MaxReq.
C3_Witness ==
    \E p \in Procs, u \in Users, k \in Keys :
        /\ result[p] = [kind |-> "added", alloc |-> MaxQty, overflow |-> Num(MaxReq - MaxQty)]
        /\ k \in DOMAIN products /\ products[k].qty = 0
        /\ <<u, k>> \in DOMAIN picklist_items /\ picklist_items[<<u, k>>] = MaxQty
        /\ <<u, k>> \in DOMAIN picklist_overflow_items
        /\ picklist_overflow_items[<<u, k>>] = MaxReq - MaxQty

\* C4: allocations and subtractions on one key are serialized: the ledger
\* quantity plus the debits the handlers reported is the quantity that was
\* there, and what was allocated to all users does not exceed it.
C4_NoLostDebit ==
    \A k \in DOMAIN products :
        /\ products[k].qty + debited[k] = baseline[k]
        /\ (plan_files = EmptyFn => granted[k] <= baseline[k])

\* C5: once an allocation is committed (and is the last write of its row), no
\* cache tier of any instance holds a card with the pre-debit quantity.
C5_NoStaleCard ==
    \A k \in DOMAIN products :
        last_debit[k].on =>
            /\ \A p \in Procs :
                  k \in DOMAIN L1[p] => L1[p][k].available # last_debit[k].pre
            /\ k \in DOMAIN product_card_cache =>
                  product_card_cache[k].available # last_debit[k].pre

\* C6: when _apply_add fails before its commit, the ledger, the picklist
\* rows, the overflow rows and both cache tiers are as before the call.
C6_AllOrNothing ==
    [][\A p \in Procs :
          (pc[p] = "add_commit" /\ pc'[p] = "idle" /\ result'[p].kind = "failed") =>
              /\ products' = pre[p].products
              /\ picklist_items' = pre[p].picklist_items
              /\ picklist_overflow_items' = pre[p].picklist_overflow_items
              /\ product_card_cache' = pre[p].product_card_cache
              /\ L1'[p] = pre[p].L1]_vars

\* C7: on a key that is not in the ledger, _apply_add returns (0, requested)
\* and the user's overflow row is increased by requested.
C7_AbsentItemOverflow ==
    [][\A p \in Procs :
          (pc[p] = "add_read" /\ tx[p].key \notin DOMAIN products
              /\ pc'[p] = "idle" /\ FloatGtZero(tx[p].req)) =>
              LET r == <<tx[p].user, tx[p].key>> IN
              /\ result'[p] = [kind |-> "added", alloc |-> 0, overflow |-> tx[p].req]
              /\ r \in DOMAIN picklist_overflow_items'
              /\ picklist_overflow_items'[r] =
                    GetOr(picklist_overflow_items, r, 0) + tx[p].req.v]_vars

\* C8: a handler whose lock statement found the row locked by another
\* transaction does not go on to read the row and stage its write: it
\* reports the contention instead.
C8_LockedRowNotTouched ==
    \A p \in Procs : contended[p] => pc[p] \notin {"add_write", "add_commit", "sub_write"}

\* C9: on both entry paths _apply_add (its session and its lock statement) is
\* entered only with a quantity that is a number above zero.
C9_InvalidRejected == \A p \in Procs : InAdd(p) => FloatGtZero(tx[p].req)

\* The quantity asked of one key by all the lines of a message.
RECURSIVE RequestedOf(_, _)
RequestedOf(items, k) ==
    IF items = <<>> THEN 0
    ELSE (IF SubKey(Head(items)) = k THEN Head(items).qty ELSE 0)
         + RequestedOf(Tail(items), k)

SubEnds(p) == pc[p] = "sub_commit" /\ pc'[p] = "idle"
HasGlobalError(r) == \E j \in 1 .. Len(r.errors) : r.errors[j].kind = "global"
ItemKeys(items) == {SubKey(items[n]) : n \in 1 .. Len(items)}

\* C11: a key of a subtract message that is not in the ledger gives one
\* "not found" error line and no result line, and every other key of the
\* message is still subtracted and committed.
C11_MissingKeyDoesNotAbort ==
    [][\A p \in Procs :
          (SubEnds(p) /\ ~HasGlobalError(result'[p])) =>
              LET keys == ItemKeys(tx[p].items)
                  missing == keys \ DOMAIN pre[p].products
                  lines == result'[p].results
                  errors == result'[p].errors
              IN /\ \A k \in missing :
                       /\ Cardinality({j \in 1 .. Len(errors) :
                              errors[j] = [key |-> k, kind |-> "not_found"]}) = 1
                       /\ \A i \in 1 .. Len(lines) : lines[i].key # k
                 /\ missing # {} =>
                       \A k \in keys \ missing :
                          LET left == pre[p].products[k].qty - RequestedOf(tx[p].items, k) IN
                          /\ \E i \in 1 .. Len(lines) : lines[i].key = k
                          /\ products'[k].qty = (IF left > 0 THEN left ELSE 0)]_vars

\* A message with a missing key and a stocked key was committed: the report
\* has the error line and the stocked key went down.
C11_Witness ==
    \E p \in Procs :
        /\ result[p].kind = "report"
        /\ Len(result[p].errors) = 1 /\ result[p].errors[1].kind = "not_found"
        /\ Len(result[p].results) = 1
        /\ result[p].results[1].after < result[p].results[1].before
        /\ products[result[p].results[1].key].qty = result[p].results[1].after

\* C12: when the transaction of a subtract message fails, no ledger quantity
\* changes and the report is the whole-operation failure alone, without
\* per-item success lines.
C12_FailureIsWhole ==
    [][\A p \in Procs :
          (SubEnds(p) /\ HasGlobalError(result'[p])) =>
              /\ products' = pre[p].products
              /\ result'[p].results = <<>>
              /\ \A j \in 1 .. Len(result'[p].errors) :
                    result'[p].errors[j].kind = "global"]_vars

\* C13: after a subtract message commits, the card of every key it subtracted
\* is in neither tier of the cache of the process that ran it.
C13_SubtractInvalidatesBothTiers ==
    [][\A p \in Procs :
          (SubEnds(p) /\ ~HasGlobalError(result'[p])) =>
              \A i \in 1 .. Len(result'[p].results) :
                 /\ result'[p].results[i].key \notin DOMAIN L1'[p]
                 /\ result'[p].results[i].key \notin DOMAIN product_card_cache']_vars
\* The step on which s.commit() of _cb_apply_import returns.
ApplyCommits(p) == pc[p] = "apply_commit" /\ pc'[p] = "idle" /\ result'[p].kind = "applied"

\* C14: when an applied plan inserts a row or changes a rendered field of a
\* row, no cache tier of any instance still holds the card of that key that
\* was cached before the apply (the "not found" card included).
C14_ApplyInvalidatesCards ==
    [][\A p \in Procs :
          ApplyCommits(p) =>
              \A k \in LedgerKeys :
                  render_product_card(k)' # render_product_card(k) =>
                      /\ \A q \in Procs :
                            k \in DOMAIN L1'[q] => L1'[q][k] # render_product_card(k)
                      /\ k \in DOMAIN product_card_cache' =>
                            product_card_cache'[k] # render_product_card(k)]_vars
\* The rows of the ledger in the departments of a plan.
InvolvedRows(plan) == {k \in DOMAIN products : k[1] \in plan.involved_depts}

\* The ledger rows of the involved departments have the keys the dry run of
\* the plan has read: its inserts are absent, its updates are present and its
\* candidates are the other rows.
PlanIsCurrent(plan) ==
    /\ SeqKeys(plan.to_insert) \cap DOMAIN products = {}
    /\ SeqKeys(plan.to_update) \subseteq DOMAIN products
    /\ plan.to_deactivate = InvolvedRows(plan) \ SeqKeys(plan.to_update)

\* The share of the candidates in the rows of the involved departments is
\* strictly greater than MAX_DEACTIVATE_SHARE.
OverShare(plan) ==
    Cardinality(plan.to_deactivate) * MaxShareDen
        > MaxShareNum * (IF InvolvedRows(plan) = {} THEN 1 ELSE Cardinality(InvolvedRows(plan)))

DryRunSaves(p, rows) ==
    /\ nops' = nops + 1
    /\ result'[p].kind = "plan"
    /\ _handle_import_file(p, TRUE, rows, result'[p].token)

\* The ledger rows of the departments a table names.
RowsOfDepts(rows) ==
    {k \in DOMAIN products : \E i \in 1 .. Len(rows) : k[1] = rows[i].dept_id}

\* C16: the dry run sets deactivate_allowed to false exactly when
\* |to_deactivate| / max(1, |ledger rows of the involved departments|) is
\* strictly greater than MAX_DEACTIVATE_SHARE; at the maximum, and without
\* ledger rows, it stays true.
C16_AllowedUnlessOverShare ==
    [][\A p \in Procs, rows \in BatchesOf(ImportRows) :
          DryRunSaves(p, rows) =>
              LET plan == plan_files'[result'[p].token]
                  n == Cardinality(RowsOfDepts(rows))
                  total == IF n >= 1 THEN n ELSE 1
              IN /\ plan.deactivate_allowed
                       = ~(Cardinality(plan.to_deactivate) * MaxShareDen > MaxShareNum * total)
                 /\ n = 0 => plan.deactivate_allowed]_vars

\* A plan whose candidates are exactly the maximal share of the rows of its
\* departments was saved with deactivate_allowed true.
C16_Witness ==
    \E p \in Procs :
        /\ result[p].kind = "plan"
        /\ nops = 1
        /\ LET plan == plan_files[result[p].token]
           IN /\ plan.to_deactivate # {}
              /\ Cardinality(plan.to_deactivate) * MaxShareDen
                    = MaxShareNum * Cardinality(InvolvedRows(plan))
              /\ plan.deactivate_allowed

Count(seq, r) == Cardinality({i \in 1 .. Len(seq) : seq[i] = r})

\* C17: the dry run puts every row of the table in exactly one of to_insert
\* (key absent from the ledger) and to_update (key present); to_deactivate is
\* the set of the ledger keys of the involved departments that the table does
\* not name, and it shares no key with to_insert and to_update.
C17_PlanPartitionsRows ==
    [][\A p \in Procs, rows \in BatchesOf(ImportRows) :
          DryRunSaves(p, rows) =>
              LET plan == plan_files'[result'[p].token] IN
              /\ \A r \in ImportRows :
                    /\ Count(plan.to_insert, r) + Count(plan.to_update, r) = Count(rows, r)
                    /\ Count(plan.to_insert, r) > 0 => RowKey(r) \notin DOMAIN products
                    /\ Count(plan.to_update, r) > 0 => RowKey(r) \in DOMAIN products
              /\ plan.to_deactivate = RowsOfDepts(rows) \ SeqKeys(rows)
              /\ plan.to_deactivate \cap (SeqKeys(plan.to_insert) \cup SeqKeys(plan.to_update)) = {}]_vars

\* A plan with an insert, an update and two candidates was saved.
C17_Witness ==
    \E p \in Procs :
        /\ result[p].kind = "plan"
        /\ nops = 1
        /\ LET plan == plan_files[result[p].token]
           IN /\ Len(plan.to_insert) = 1
              /\ Len(plan.to_update) = 1
              /\ Cardinality(plan.to_deactivate) = 2
              /\ SeqKeys(plan.to_update) \subseteq DOMAIN products
              /\ SeqKeys(plan.to_insert) \cap DOMAIN products = {}
\* C18: a plan token is single use: once _cb_apply_import has committed the
\* plan of a token, the plan is gone, so that a later apply or cancel of the
\* token finds no plan and the plan is not applied a second time.
C18_TokenSingleUse ==
    [][\A p \in Procs :
          ApplyCommits(p) => tx[p].plan.token \notin DOMAIN plan_files']_vars

\* Instance q has applied the plan of the token while the apply of p, which
\* has loaded the same plan, was running: the ledger p has read is not the
\* ledger any more.
AppliedMeanwhile(q, p) ==
    /\ result[q].kind = "applied"
    /\ result[q].token = tx[p].plan.token
    /\ pre[p].products # products

\* C19: attempts of two instances to apply the plan of one token at the same
\* time exclude each other: when one of them has applied the plan, the other
\* does not commit it.
C19_ConcurrentApplyExcluded ==
    [][\A p \in Procs :
          ApplyCommits(p) => \A q \in Procs \ {p} : ~AppliedMeanwhile(q, p)]_vars

\* The step on which _cb_apply_import ends in its except branch.
ApplyFails(p) ==
    pc[p] = "apply_commit" /\ pc'[p] = "idle" /\ result'[p].kind = "apply_failed"

C21_CancelDiscardsOrRejects ==
    [][\A p \in Procs, token \in Tokens :
          /\ (nops' = nops + 1 /\ _cb_cancel_import(p, token)) =>
                /\ products' = products
                /\ token \notin DOMAIN plan_files'
                /\ token \notin DOMAIN plan_files => result'[p].kind = "rejected"
          /\ (nops' = nops + 1 /\ token \notin DOMAIN plan_files
                 /\ \E allowed \in BOOLEAN : _cb_apply_import(p, allowed, token)) =>
                result'[p].kind = "rejected"]_vars
\* C22: a table in which no row has an article is refused with the "no
\* articles" answer: no plan is saved and no ledger row changes, whatever the
\* ledger holds.
C22_NoArticlesRefused ==
    [][\A p \in Procs, raw \in BatchesOf(RawRows), token \in Tokens :
          (/\ nops' = nops + 1
           /\ \A i \in 1 .. Len(raw) : raw[i].article = NoArticle
           /\ _handle_import_file(p, TRUE, raw, token)) =>
              /\ result'[p].kind = "no_articles"
              /\ plan_files' = plan_files
              /\ products' = products]_vars

\* A table without an article was refused over a ledger that has rows.
C22_Witness ==
    \E p \in Procs :
        /\ result[p].kind = "no_articles"
        /\ nops = 1
        /\ plan_files = EmptyFn
        /\ products # EmptyFn
\* C23: (dept_id, article) identifies at most one ledger record, and a plan
\* applies also when its table names a key several times or the ledger has
\* changed since the dry run: at the commit of _cb_apply_import the rows to be
\* added have pairwise different keys, none of which is in the ledger.
C23_RepeatedKeysApply ==
    \A p \in Procs :
        pc[p] = "apply_commit" =>
            /\ \A i, j \in 1 .. Len(tx[p].ins) :
                  tx[p].ins[i].key = tx[p].ins[j].key => i = j
            /\ InsertedKeys(p) \cap DOMAIN products = {}
\* Key k is in L1 and its entry has not expired.
L1Fresh(k) == k \in DOMAIN _L1._data /\ time - _L1._data[k].ts <= CARD_L1_TTL_SEC

\* C24: get_card(k) right after set_card(k, payload, file_id), the entry not
\* expired in between, returns the payload that was set; when the payload has
\* no "file_id" of its own the returned one carries the file id that was set.
C24_SetGetRoundTrip ==
    [][\A k \in CacheKeys :
          (/\ call.op = "set_card" /\ call.key = k
           /\ nops' = nops + 1 /\ call'.op = "get_card"
           /\ L1Fresh(k)
           /\ CallGet(k)) =>
              /\ call'.ret # NoEntry
              /\ call'.ret.body = call.card_json.body
              /\ call'.ret.file_id = IF call.card_json.file_id # NoFile
                                      THEN call.card_json.file_id ELSE call.file_id]_vars
C24_Witness ==
    /\ nops = 2
    /\ call.op = "get_card" /\ call.key = <<"100", "22222222">>
    /\ call.ret = [body |-> Body(<<"100", "22222222">>, MaxQty), file_id |-> "f1"]
    /\ _L1._data[<<"100", "22222222">>].file_id = "f2"

\* Key k is in neither tier.
InNoTier(S, k) ==
    /\ k \notin DOMAIN S.l1._data
    /\ ~UseHas(S.l1._use, k)
    /\ k \notin DOMAIN S.rows

\* The times _use holds for key k.
UseOf(use, k) == {use[i].t : i \in {j \in 1 .. Len(use) : use[j].k = k}}

\* Key k has the same L1 entry, recency and L2 row in S and T.
SameForKey(S, T, k) ==
    /\ k \in DOMAIN S.l1._data <=> k \in DOMAIN T.l1._data
    /\ k \in DOMAIN S.l1._data => S.l1._data[k] = T.l1._data[k]
    /\ UseOf(S.l1._use, k) = UseOf(T.l1._use, k)
    /\ k \in DOMAIN S.rows <=> k \in DOMAIN T.rows
    /\ k \in DOMAIN S.rows => S.rows[k] = T.rows[k]

\* The cache after the step.
CacheAfter == [l1 |-> _L1', rows |-> ProductCardCache']

\* What invalidating the keys gone must do to the cache.
Invalidated(gone) ==
    /\ \A k \in gone : InNoTier(CacheAfter, k) /\ get_card(CacheAfter, k, time').ret = NoEntry
    /\ \A k \in CacheKeys \ gone : SameForKey(Cache, CacheAfter, k)
    /\ (\A k \in gone : InNoTier(Cache, k)) => CacheAfter = Cache

\* C25: invalidate(k) and invalidate_many(pairs) leave each key they name in
\* neither tier, whatever was there; a get_card of it right afterwards is a
\* miss; the entries, recency and rows of every other key are as before; and
\* when the keys were in neither tier nothing changes.
C25_InvalidateBothTiers ==
    [][/\ \A k \in CacheKeys :
             /\ (nops' = nops + 1 /\ call'.op = "invalidate" /\ CallInvalidate(k)) =>
                   Invalidated({k})
             /\ (call.op = "invalidate" /\ call.key = k /\ nops' = nops + 1 /\ CallGet(k)) => call'.ret = NoEntry
             /\ (/\ call.op = "invalidate_many"
                 /\ \E i \in 1 .. Len(call.pairs) : call.pairs[i] = k
                 /\ nops' = nops + 1
                 /\ CallGet(k)) => call'.ret = NoEntry
       /\ \A pairs \in KeyPairs :
             (nops' = nops + 1 /\ call'.op = "invalidate_many" /\ CallInvalidateMany(pairs)) =>
                Invalidated({pairs[i] : i \in 1 .. Len(pairs)})]_vars
C25_Witness ==
    /\ call.op = "get_card" /\ call.key = <<"100", "11111111">> /\ call.ret = NoEntry
    /\ nops = 4
    /\ DOMAIN _L1._data = {<<"100", "22222222">>}
    /\ DOMAIN ProductCardCache = {<<"100", "22222222">>}

\* C26: a get_or_render_card(k) that rendered the card on a miss and the next
\* call, again get_or_render_card(k), whatever time passes between the two,
\* return the same payload, file id included; the second is served from the
\* cache.
C26_RenderTwiceSame ==
    [][\A k \in CacheKeys :
          (/\ call.op = "get_or_render_card" /\ call.key = k /\ call.rendered
           /\ nops' = nops + 1 /\ call'.op = "get_or_render_card"
           /\ CallGetOrRender(k)) =>
              /\ ~call'.rendered
              /\ call'.ret = call.ret]_vars
C26_Witness ==
    /\ nops = 2 /\ time = MaxTime
    /\ call.op = "get_or_render_card" /\ call.key = <<"100", "11111111">>
    /\ ~call.rendered
    /\ call.ret.file_id = "f1"
    /\ ProductCardCache[<<"100", "11111111">>] =
          [card_json |-> [body |-> Body(<<"100", "11111111">>, MaxQty), file_id |-> NoFile],
           file_id |-> "f1"]
    /\ _L1._data[<<"100", "11111111">>].ts = MaxTime

\* C27: update_file_id(k, file_id) changes nothing but the file id of the L1
\* entry and of the L2 row of k, and a get_card(k) right after it that finds
\* the card, cached as a card_json without a "file_id" of its own, returns it
\* with "file_id" equal to file_id.
C27_UpdateFileIdOnly ==
    [][\A k \in CacheKeys :
          /\ (nops' = nops + 1 /\ call'.op = "update_file_id"
                 /\ \E file_id \in FileIds : CallUpdateFileId(k, file_id)) =>
                /\ DOMAIN _L1'._data = DOMAIN _L1._data
                /\ DOMAIN ProductCardCache' = DOMAIN ProductCardCache
                /\ \A j \in DOMAIN _L1._data :
                      /\ _L1'._data[j].value = _L1._data[j].value
                      /\ j # k => _L1'._data[j] = _L1._data[j]
                /\ \A j \in DOMAIN ProductCardCache :
                      /\ ProductCardCache'[j].card_json = ProductCardCache[j].card_json
                      /\ j # k => ProductCardCache'[j] = ProductCardCache[j]
                /\ k \in DOMAIN _L1._data => _L1'._data[k].file_id = call'.file_id
                /\ k \in DOMAIN ProductCardCache => ProductCardCache'[k].file_id = call'.file_id
          /\ (/\ call.op = "update_file_id" /\ call.key = k
              /\ nops' = nops + 1 /\ call'.op = "get_card"
              /\ k \in DOMAIN ProductCardCache
              /\ ProductCardCache[k].card_json.file_id = NoFile
              /\ CallGet(k)
              /\ call'.ret # NoEntry) =>
                call'.ret.file_id = call.file_id]_vars

\* The time of the last set or hit that L1 holds for key k.
LastUse(c, k) == CHOOSE t \in UseOf(c._use, k) : TRUE

\* C28: L1 never holds more than CARD_L1_MAX_ITEMS (> 0) entries; a step that
\* puts a new key into a full L1 removes exactly one other entry, one whose
\* recorded time of last set or hit is the smallest, and keeps the new key;
\* into an L1 that is not full the key is put without removing anything.
C28_CapacityAndLRU ==
    [][/\ CARD_L1_MAX_ITEMS > 0 => Cardinality(DOMAIN _L1'._data) <= CARD_L1_MAX_ITEMS
       /\ \A k \in CacheKeys :
             (CARD_L1_MAX_ITEMS > 0 /\ k \notin DOMAIN _L1._data /\ k \in DOMAIN _L1'._data) =>
                IF Cardinality(DOMAIN _L1._data) < CARD_L1_MAX_ITEMS
                THEN DOMAIN _L1'._data = DOMAIN _L1._data \cup {k}
                ELSE \E old \in DOMAIN _L1._data :
                        /\ DOMAIN _L1'._data = (DOMAIN _L1._data \ {old}) \cup {k}
                        /\ \A j \in DOMAIN _L1._data : LastUse(_L1, old) <= LastUse(_L1, j)]_vars
C28_Witness ==
    /\ nops = 4
    /\ call.op = "set_card" /\ call.key = <<"100", "33333333">>
    /\ _L1._use = <<[k |-> <<"100", "11111111">>, t |-> 1], [k |-> <<"100", "33333333">>, t |-> 2]>>
    /\ _L1._data[<<"100", "11111111">>].ts = 0
    /\ <<"100", "22222222">> \in DOMAIN ProductCardCache

\* C29: a get_or_render_card(k) that has to render a key absent from the
\* ledger returns, and caches, the "not found" card: the dept_id and the
\* article asked for, nothing available, can_add false and no file id.
C29_NotFoundCard ==
    [][\A k \in CacheKeys :
          (/\ k \notin DOMAIN products
           /\ nops' = nops + 1 /\ call'.op = "get_or_render_card" /\ call'.rendered
           /\ CallGetOrRender(k)) =>
              /\ call'.ret.body = [dept_id |-> k[1], article |-> k[2], found |-> FALSE,
                                    available |-> 0, can_add |-> FALSE]
              /\ call'.ret.file_id = NoFile
              /\ get_card(CacheAfter, k, time').ret = call'.ret]_vars
C29_Witness ==
    /\ call.op = "get_or_render_card" /\ call.key = <<"100", "33333333">> /\ call.rendered
    /\ <<"100", "33333333">> \notin DOMAIN products
    /\ ~call.ret.body.found /\ call.ret.body.article = "33333333"
    /\ <<"100", "33333333">> \in DOMAIN ProductCardCache

\* C30: a get_card(k) that finds in L1 an entry set more than CARD_L1_TTL_SEC
\* (> 0) ago does not serve it: the entry is removed and the answer is the L2
\* row, put into L1 anew, or a miss; one that finds a younger entry serves
\* it, leaves the entry and the time it was set as they are and makes the
\* current time its time of last use.
C30_LazyExpiry ==
    [][\A k \in CacheKeys :
          (/\ CARD_L1_TTL_SEC > 0
           /\ k \in DOMAIN _L1._data
           /\ nops' = nops + 1 /\ call'.op = "get_card"
           /\ CallGet(k)) =>
              IF time - _L1._data[k].ts > CARD_L1_TTL_SEC
              THEN \/ /\ call'.ret = NoEntry
                      /\ k \notin DOMAIN ProductCardCache
                      /\ k \notin DOMAIN _L1'._data /\ ~UseHas(_L1'._use, k)
                   \/ /\ k \in DOMAIN ProductCardCache
                      /\ call'.ret.body = ProductCardCache[k].card_json.body
                      /\ call'.ret.file_id =
                            IF ProductCardCache[k].card_json.file_id # NoFile
                            THEN ProductCardCache[k].card_json.file_id
                            ELSE ProductCardCache[k].file_id
                      /\ _L1'._data[k] = [value |-> call'.ret,
                                          file_id |-> ProductCardCache[k].file_id, ts |-> time]
              ELSE /\ call'.ret # NoEntry
                   /\ call'.ret.body = _L1._data[k].value.body
                   /\ _L1'._data = _L1._data
                   /\ LastUse(_L1', k) = time]_vars
C30_Witness ==
    /\ nops = 2 /\ time = MaxTime
    /\ call.op = "get_card" /\ call.key = <<"100", "22222222">>
    /\ call.ret # NoEntry
    /\ call.ret.file_id = "f2"
    /\ _L1._data[<<"100", "22222222">>].value.file_id = "f2"
    /\ _L1._data[<<"100", "22222222">>].ts = MaxTime
    /\ ProductCardCache[<<"100", "22222222">>].card_json.file_id = NoFile

\* The L1 entry of k as get_card returns it.
Served(e) ==
    [body |-> e.value.body,
     file_id |-> IF e.value.file_id # NoFile THEN e.value.file_id ELSE e.file_id]

\* The L2 row of k as get_card returns it.
ServedRow(row) ==
    [body |-> row.card_json.body,
     file_id |-> IF row.card_json.file_id # NoFile THEN row.card_json.file_id ELSE row.file_id]

\* What every get_card(k) does: an L1 entry that has not expired is returned
\* and nothing but its recency changes; otherwise, with L2 on, a row of k is
\* returned and becomes the L1 entry; otherwise the answer is None. L2 is
\* never written, and with L2 off its rows are not read.
GetThroughTiers(k) ==
    /\ ProductCardCache' = ProductCardCache
    /\ IF L1Fresh(k)
       THEN /\ call'.ret = Served(_L1._data[k])
            /\ _L1'._data = _L1._data
       ELSE IF CARD_L2_ENABLED /\ k \in DOMAIN ProductCardCache
       THEN /\ call'.ret = ServedRow(ProductCardCache[k])
            /\ k \in DOMAIN _L1'._data
            /\ _L1'._data[k] = [value |-> call'.ret, file_id |-> ProductCardCache[k].file_id,
                                ts |-> time]
       ELSE call'.ret = NoEntry

\* C31 as stated: when both tiers miss, L1 is left as it was too.
C31_MissLeavesTiers ==
    [][\A k \in CacheKeys :
          (nops' = nops + 1 /\ call'.op = "get_card" /\ CallGet(k)) =>
              /\ GetThroughTiers(k)
              /\ call'.ret = NoEntry => _L1' = _L1]_vars

\* C31, amended: get_card(k) goes through L1, then L2, then answers None; L2
\* is never written and is not read when it is off; when both tiers miss,
\* L1 is left as it was except that an expired entry of k is removed.
C31_GetThroughTiers ==
    [][\A k \in CacheKeys :
          (nops' = nops + 1 /\ call'.op = "get_card" /\ CallGet(k)) =>
              /\ GetThroughTiers(k)
              /\ call'.ret = NoEntry => _L1' = _LRUCache_invalidate(_L1, k)]_vars
C31_Witness ==
    /\ ~CARD_L2_ENABLED
    /\ call.op = "get_card" /\ call.key = <<"100", "11111111">> /\ call.ret = NoEntry
    /\ <<"100", "11111111">> \in DOMAIN ProductCardCache
    /\ DOMAIN _L1._data = {<<"100", "22222222">>}
    /\ nops = 3

\* C32: when open_product has rendered a card on a full miss and returned,
\* the committed product_card_cache holds that card for the key, so that any
\* process finds it in L2.
C32_RenderedCardInL2 ==
    [][\A p \in Procs :
          (pc[p] = "open_render" /\ OpenRender(p)) =>
              /\ tx[p].key \in DOMAIN product_card_cache'
              /\ product_card_cache'[tx[p].key] = result'[p].card]_vars

\* The quantity the items of a plan leave on key k: that of the last item of
\* the INSERT and UPDATE loops that names k with a quantity, else old.
PlanQty(plan, k, old) ==
    LET items == plan.to_insert \o plan.to_update
        idx == {i \in 1 .. Len(items) : RowKey(items[i]) = k /\ items[i].qty.has}
    IN IF idx = {} THEN old
       ELSE items[CHOOSE i \in idx : \A j \in idx : j <= i].qty.v

\* C33: _cb_apply_import resolves every item against the ledger it reads:
\* before its commit exactly the keys of the plan that are not in the ledger
\* are staged as new rows, whether the plan lists them under to_insert or
\* to_update, and when it commits every key of the plan has one active row
\* with the quantity of the plan, a row that was there keeping its quantity
\* when the plan names none.
C33_ApplyReResolves ==
    [][\A p \in Procs :
          ApplyCommits(p) =>
              LET plan == tx[p].plan
                  keys == SeqKeys(plan.to_insert) \cup SeqKeys(plan.to_update)
              IN /\ InsertedKeys(p) = keys \ DOMAIN products
                 /\ DOMAIN products' = DOMAIN products \cup keys
                 /\ \A k \in keys :
                       /\ products'[k].active
                       /\ products'[k].qty =
                             PlanQty(plan, k, IF k \in DOMAIN products THEN products[k].qty ELSE 0)]_vars
C33_Witness ==
    \E p \in Procs :
        /\ pc[p] = "apply_commit"
        /\ ApplyConstraintsHold(p)
        /\ \E k \in SeqKeys(tx[p].plan.to_update) : k \notin DOMAIN products /\ k \in InsertedKeys(p)
        /\ \E k \in SeqKeys(tx[p].plan.to_insert) : k \in DOMAIN products /\ k \notin InsertedKeys(p)

\* The items of a plan that name key k.
ItemsOf(plan, k) ==
    LET Names(it) == RowKey(it) = k IN SelectSeq(plan.to_insert \o plan.to_update, Names)

\* C34: a committing _cb_apply_import writes on the row of a plan item only
\* what the item holds: a key whose items hold no quantity keeps the quantity
\* of its row, or gets 0 when the row is new; a key with one item that holds
\* a quantity gets it; each such row ends active; and a row that no item
\* names keeps its quantity and changes its active flag only by the
\* deactivation the plan allows.
C34_OnlyPresentFields ==
    [][\A p \in Procs :
          ApplyCommits(p) =>
              LET plan == tx[p].plan IN
              \A k \in DOMAIN products' :
                 LET items == ItemsOf(plan, k) IN
                 IF items = <<>>
                 THEN /\ k \in DOMAIN products
                      /\ products'[k].qty = products[k].qty
                      /\ \/ products'[k].active = products[k].active
                         \/ /\ ~products'[k].active
                            /\ k \in plan.to_deactivate /\ plan.deactivate_allowed
                 ELSE /\ products'[k].active
                      /\ (\A i \in 1 .. Len(items) : ~items[i].qty.has) =>
                            products'[k].qty = IF k \in DOMAIN products THEN products[k].qty ELSE 0
                      /\ (Len(items) = 1 /\ items[1].qty.has) => products'[k].qty = items[1].qty.v]_vars
C34_Witness ==
    \E p \in Procs :
        /\ pc[p] = "apply_commit"
        /\ ApplyConstraintsHold(p)
        /\ \E i \in 1 .. Len(tx[p].plan.to_update) :
              LET it == tx[p].plan.to_update[i] IN
              /\ ~it.qty.has /\ Len(ItemsOf(tx[p].plan, RowKey(it))) = 1
              /\ RowKey(it) \in DOMAIN products
              /\ products[RowKey(it)].qty = MaxQty /\ tx[p].objs[RowKey(it)].qty = MaxQty
        /\ \E i \in 1 .. Len(tx[p].ins) : tx[p].ins[i].qty = 0 /\ tx[p].ins[i].active
        /\ \E i \in 1 .. Len(tx[p].plan.to_insert) : ~tx[p].plan.to_insert[i].qty.has

\* The ledger keys a plan may touch: those of its involved departments.
InScope(plan, k) == k[1] \in plan.involved_depts

\* C35: every saved plan lists under to_deactivate only keys of the
\* departments its table names, and a committing _cb_apply_import leaves
\* every ledger row of any other department as it was.
C35_ScopedToDepartments ==
    [][/\ \A token \in DOMAIN plan_files' :
             \A k \in plan_files'[token].to_deactivate : InScope(plan_files'[token], k)
       /\ \A p \in Procs :
             ApplyCommits(p) =>
                 \A k \in DOMAIN products :
                     ~InScope(tx[p].plan, k) => k \in DOMAIN products' /\ products'[k] = products[k]]_vars
C35_Witness ==
    /\ nops = 2
    /\ \E p \in Procs : result[p].kind = "applied"
    /\ \E token \in DOMAIN plan_files :
          /\ plan_files[token].deactivate_allowed
          /\ plan_files[token].to_deactivate # {}
          /\ \A k \in plan_files[token].to_deactivate : ~products[k].active
          /\ <<"100", "11111111">> \in plan_files[token].to_deactivate
    /\ products[<<"200", "11111111">>] = [qty |-> MaxQty, active |-> TRUE]

\* ---------------------------------------------------------------------- C36
\* Everything the store and the caches hold about one key.
AboutKey(k) ==
    [ledger |-> {<<x, products[x]>> : x \in DOMAIN products \cap {k}},
     alloc |-> {<<r, picklist_items[r]>> : r \in {x \in DOMAIN picklist_items : x[2] = k}},
     over |-> {<<r, picklist_overflow_items[r]>> :
                 r \in {x \in DOMAIN picklist_overflow_items : x[2] = k}},
     l2 |-> {<<x, product_card_cache[x]>> : x \in DOMAIN product_card_cache \cap {k}},
     l1 |-> [q \in Procs |-> {<<x, L1[q][x]>> : x \in DOMAIN L1[q] \cap {k}}]]

\* The same, as process p found it when its handler started.
AboutKeyBefore(p, k) ==
    [ledger |-> {<<x, pre[p].products[x]>> : x \in DOMAIN pre[p].products \cap {k}},
     alloc |-> {<<r, pre[p].picklist_items[r]>> :
                  r \in {x \in DOMAIN pre[p].picklist_items : x[2] = k}},
     over |-> {<<r, pre[p].picklist_overflow_items[r]>> :
                 r \in {x \in DOMAIN pre[p].picklist_overflow_items : x[2] = k}}]

\* The keys the handler of p works on.
KeysOf(p) ==
    IF pc[p] \in {"add_lock", "add_read", "add_write", "add_commit"} THEN {tx[p].key}
    ELSE IF pc[p] \in {"sub_lock", "sub_read", "sub_write", "sub_commit"}
    THEN ItemKeys(tx[p].items)
    ELSE LedgerKeys

InAddOrSub(p) ==
    pc[p] \in {"add_lock", "add_read", "add_write", "add_commit",
               "sub_lock", "sub_read", "sub_write", "sub_commit"}

\* Nobody else has written the rows of k since the handler of p started.
Undisturbed(p, k) ==
    /\ AboutKey(k).ledger = AboutKeyBefore(p, k).ledger
    /\ AboutKey(k).alloc = AboutKeyBefore(p, k).alloc
    /\ AboutKey(k).over = AboutKeyBefore(p, k).over

\* C36: every statement of an allocate or a subtract leaves the ledger row, the
\* Allocation and Overflow rows and the cache entries (both tiers, every
\* process) of each key it was not called for unchanged; and a committed
\* allocate or subtract whose own key nobody else wrote meanwhile leaves that
\* key's ledger row as the call alone would: the outcome on a key does not
\* depend on the order or interleaving with calls on other keys.
C36_DifferentKeysIndependent ==
    [][\A p \in Procs :
          (InAddOrSub(p) /\ (pc'[p] # pc[p] \/ tx'[p] # tx[p])) =>
             /\ \A b \in LedgerKeys \ KeysOf(p) : AboutKey(b)' = AboutKey(b)
             /\ (pc[p] = "add_commit" /\ result'[p].kind = "added"
                    /\ tx[p].key \in DOMAIN products /\ Undisturbed(p, tx[p].key)) =>
                   LET k == tx[p].key
                       was == pre[p].products[k].qty
                   IN /\ result'[p].alloc = Min(was, tx[p].req.v)
                      /\ result'[p].overflow = Num(tx[p].req.v - Min(was, tx[p].req.v))
                      /\ products'[k].qty = was - result'[p].alloc
             /\ (pc[p] = "sub_commit" /\ pc'[p] = "idle"
                    /\ \A i \in 1 .. Len(result'[p].errors) :
                          result'[p].errors[i].kind # "global") =>
                   \A k \in KeysOf(p) \cap DOMAIN products :
                       Undisturbed(p, k) =>
                          products'[k].qty =
                             Subtracted(pre[p].products[k].qty,
                                        tx[p].agg[CHOOSE i \in 1 .. Len(tx[p].agg) :
                                                      tx[p].agg[i].key = k].qty)]_vars

\* Two handlers of different keys are in flight together and one of them commits.
C36_Witness ==
    \E p, q \in Procs :
        /\ p # q
        /\ pc[q] \in {"add_write", "add_commit", "sub_write", "sub_commit"}
        /\ result[p].kind \in {"added", "report"}
        /\ pc[p] = "idle"
        /\ KeysOf(q) \cap DOMAIN products # {}
        /\ \E k \in LedgerKeys \ KeysOf(q) :
              /\ k \in DOMAIN products /\ k \in DOMAIN pre[q].products
              /\ products[k].qty < pre[q].products[k].qty

\* ---------------------------------------------------------------------- C37
\* C37: is_admin is true exactly for the users listed in ADMIN_IDS, so the
\* confirm button of a user who is not listed never loads a plan for its
\* application and the ledger never changes on that user's requests.
C37_ListedUsersOnly ==
    [][from_user \notin ADMIN_IDS =>
          /\ products' = products
          /\ \A p \in Procs : pc'[p] # "apply_commit"]_vars

\* ---------------------------------------------------------------------- C38
\* The sum over the users in U of what the rows of table t hold for key k.
RECURSIVE HeldFor(_, _, _)
HeldFor(t, k, U) ==
    IF U = {} THEN 0
    ELSE LET u == CHOOSE x \in U : TRUE
         IN GetOr(t, <<u, k>>, 0) + HeldFor(t, k, U \ {u})

\* C38: across every committed allocate the ledger quantity of each key plus
\* the quantity allocated to all users for it stays the same, and no user's
\* allocated or overflow quantity decreases.
C38_ConservedUnderAllocate ==
    [][\A p \in Procs :
          (pc[p] = "add_commit" /\ pc'[p] = "idle" /\ result'[p].kind = "added") =>
             /\ \A k \in DOMAIN products :
                   products'[k].qty + HeldFor(picklist_items', k, Users)
                      = products[k].qty + HeldFor(picklist_items, k, Users)
             /\ \A r \in DOMAIN picklist_items : picklist_items'[r] >= picklist_items[r]
             /\ \A r \in DOMAIN picklist_overflow_items :
                   picklist_overflow_items'[r] >= picklist_overflow_items[r]]_vars

\* ---------------------------------------------------------------------- C39
\* C39: every statement of subtractBatch leaves the Allocation and Overflow
\* rows as they are, adds or removes no ledger row, leaves the ledger rows its
\* message does not name unchanged, and changes nothing but qty in the rows it
\* names.
C39_SubtractWritesQtyOnly ==
    [][\A p \in Procs :
          (pc[p] \in {"sub_lock", "sub_read", "sub_write", "sub_commit"}
             /\ (pc'[p] # pc[p] \/ tx'[p] # tx[p])) =>
             /\ picklist_items' = picklist_items
             /\ picklist_overflow_items' = picklist_overflow_items
             /\ DOMAIN products' = DOMAIN products
             /\ \A k \in DOMAIN products :
                   /\ products'[k] = [products[k] EXCEPT !.qty = products'[k].qty]
                   /\ k \notin ItemKeys(tx[p].items) => products'[k] = products[k]]_vars

\* A subtract has committed a debit on a ledger that holds other rows and while
\* a user holds an Allocation row.
C39_Witness ==
    \E p \in Procs :
        /\ pc[p] = "idle" /\ result[p].kind = "report"
        /\ \E i \in 1 .. Len(result[p].results) :
              LET line == result[p].results[i] IN
              /\ line.after < line.before
              /\ products[line.key].qty = line.after
              /\ products[line.key].active
              /\ DOMAIN products # {line.key}
        /\ picklist_items # EmptyFn

\* ---------------------------------------------------------------------- C40
\* C40: a dry run never saves its plan under the token of a plan that is still
\* awaiting confirmation (no two pending plans share a token, so no pending
\* plan is overwritten and a confirm button applies the plan it was shown for).
C40_TokenNotPending ==
    [][\A p \in Procs :
          (nops' = nops + 1 /\ result'[p] # result[p] /\ result'[p].kind = "plan") =>
             result'[p].token \notin DOMAIN plan_files]_vars
====
